---- MODULE Spec2Model ----
(***************************************************************************)
(* Verification model of krx-auto-crawling.                                *)
(*                                                                         *)
(*   SpecPipe : DailyKrxNetValuePipeline.run over its seven tasks          *)
(*              (core/pipelines/daily_krx_net_value_pipeline.py and        *)
(*               core/tasks/krx_net_value/*.py)                            *)
(*                                                                         *)
(* Every specification leaves the variables of the other parts at their    *)
(* initial value.                                                          *)
(***************************************************************************)
EXTENDS Integers, Sequences, FiniteSets, TLC

VARIABLES
    pc,        \* pipeline: index into pipeline_steps of the task the loop is at
    phase,     \* pipeline: "running" in the loop, "done" after it, "returned" after return
    context,   \* pipeline: the shared context dictionary
    executed,  \* pipeline: indices of the tasks whose execute() was called, in call order
    result,    \* pipeline: <<the dictionary run() returned>>, <<>> before the return
    raised,    \* pipeline: <<str(e)>> once a task's execute raised e, <<>> before
    portLog,   \* pipeline: the keys each port was called for, and with what outcome
    trail,     \* pipeline: the status and message each executed task produced, in order
    excel_bytes, \* standardizer: the payload handed to process_krx_net_value_excel
    df_final,  \* standardizer: <<the frame it returned>>, <<>> before the call
    files,     \* ledger: report key -> the workbook file of that key under master_path
    lastCall,  \* ledger: arguments and outcome of the latest update_report call
    ncalls,    \* ledger: number of update_report calls made
    saves,     \* ledger: number of book.save(file_path) calls made
    stores,    \* ledger stores: storage -> the workbook it holds at file_path
    lastSave,  \* ledger stores: arguments and outcome of the latest save_workbook call
    nsaves,    \* ledger stores: number of save_workbook calls made
    procs,     \* ledger race: process -> its position in update_report and its locals
    ranking_file, \* snapshot: the ranking workbook file at file_path
    lastUpdate,   \* snapshot: arguments and outcome of the latest update_ranking_report call
    nupdates,      \* snapshot: number of update_ranking_report calls made
    cli,  \* command line: position in crawl, its argument, what the routine did, the exit code
    base_run  \* the abstract Pipeline object and the position of its run()

pipeVars == <<pc, phase, context, executed, result, raised, portLog, trail>>

stdVars == <<excel_bytes, df_final>>

storeVars == <<stores, lastSave, nsaves>>

ledgerVars == <<files, lastCall, ncalls, saves, stores, lastSave, nsaves, procs>>

snapVars == <<ranking_file, lastUpdate, nupdates>>

baseVars == <<base_run>>

cliVars == <<cli>>

vars == <<pc, phase, context, executed, result, raised, portLog, trail,
          excel_bytes, df_final,
          files, lastCall, ncalls, saves, stores, lastSave, nsaves, procs,
          ranking_file, lastUpdate, nupdates,
          cli,
          base_run>>

\* a value a dictionary key does not have (context.get(...) returns None);
\* NoVal / Some(x) are None / x for the keys that hold a dictionary or a number
None == "None"
NoVal == <<>>
Some(x) == <<x>>

\* crawl has not been invoked
NoCli ==
    [pc |-> "idle", date |-> <<>>, results |-> 0, steps |-> <<>>, exit_code |-> -1]

CliIdle == cli = NoCli

\* Python's None where a task result can stand, in the shape of a result
NoneResult == [status |-> "None", by |-> 0]

\* no abstract Pipeline has been constructed
NoBase ==
    [pc |-> "idle", steps |-> <<>>, i |-> 0, current_input |-> NoneResult,
     last_result |-> NoneResult, executed |-> <<>>, final |-> <<>>]

BaseIdle == base_run = NoBase

\* the standardizer has not been given anything
StdIdle ==
    /\ excel_bytes = [kind |-> "idle", has_code |-> FALSE, has_name |-> FALSE, cols |-> <<>>]
    /\ df_final = NoVal

\* a file that does not exist
NoFile == [exists |-> FALSE, sheets |-> <<>>]

\* no update_report call has been made
NoCall ==
    [key |-> "none", date |-> 0, rows |-> <<>>, ret |-> FALSE, skipped |-> FALSE,
     again |-> FALSE, hadView |-> FALSE, rawBefore |-> <<>>, changed |-> FALSE,
     views |-> {}, sheetsBefore |-> <<>>, first |-> {}]

\* the ledger is not used
\* no save_workbook call yet
NoSave ==
    [date |-> 0, ret |-> FALSE, book |-> <<>>, before |-> <<>>, saved |-> {}]

StoresIdle ==
    /\ stores = <<>> /\ lastSave = NoSave /\ nsaves = 0

LedgerIdle ==
    /\ files = <<>> /\ lastCall = NoCall /\ ncalls = 0 /\ saves = 0
    /\ StoresIdle /\ procs = <<>>

\* no update_ranking_report call yet
NoUpdate ==
    [date |-> 0, data |-> <<>>, common |-> <<>>, ret |-> FALSE, again |-> FALSE,
     sheetBefore |-> <<>>, fault |-> "none", changed |-> FALSE,
     titlesBefore |-> <<>>, source |-> "none"]

\* the ranking adapter is not run
SnapIdle == ranking_file = NoFile /\ lastUpdate = NoUpdate /\ nupdates = 0

\* no port has been called: the keys fetch_net_value_data was called for and
\* those it raised for; whether the loop of UpdateMasterReportsTask was
\* reached, the keys update_report was called for and those it returned True
\* for
NoPortCalls ==
    [fetch_called |-> {}, fetch_failed |-> {}, ledger_ran |-> FALSE,
     ledger_called |-> {}, ledger_ok |-> {}]

\* the pipeline is not run
PipeIdle ==
    /\ pc = 0 /\ phase = "idle" /\ context = <<>> /\ executed = <<>>
    /\ result = NoVal /\ raised = NoVal /\ portLog = NoPortCalls /\ trail = <<>>

(***************************************************************************)
(* Part 1.  The daily pipeline                                             *)
(***************************************************************************)

\* FetchKrxNetValueTask.targets = itertools.product(markets, investors)
Keys == {"KOSPI_institutions", "KOSPI_foreigner", "KOSDAQ_institutions", "KOSDAQ_foreigner"}

\* run(date_str): a well-formed YYYYMMDD string, a string strptime rejects, or None
DateStrs == {"20251024", "2025-10-24", None}

\* datetime.date.today().strftime('%Y%m%d')
Today == "20251027"

\* datetime.datetime.strptime(date_str, '%Y%m%d') succeeds
ValidDateStr(d) == d \in {"20251024", Today}

\* what KrxDataPort.fetch_net_value_data does for one target: it raises, or
\* returns b"" , or bytes the processor turns into an empty frame (HTML of a
\* non-trading day, missing columns), or bytes that yield a non-empty frame
FetchOutcomes == {"raise", "empty", "invalid", "good"}

\* texts of the exceptions a task's execute may raise
Faults == {"boom", "oops"}


\* the context before the first task: {'date_str': date_str}
InitialContext(d) ==
    [date_str |-> d, status |-> None, message |-> None,
     raw_bytes_dict |-> NoVal, processed_dfs_dict |-> NoVal, watchlist_df |-> None,
     common_stocks |-> NoVal]

\* dict.update: the keys of the task output overwrite those of the context
Merge(ctx, out) ==
    [k \in DOMAIN ctx |-> IF k \in DOMAIN out THEN out[k] ELSE ctx[k]]

\* (mutant) a halt test that forgets 'error'
HaltOnSkippedOnly == {"skipped"}

\* the statuses after which run() breaks out of its loop (line 161)
HaltStatuses == {"error", "skipped"}

\* ---- the tasks: each operator is execute(context) for one choice of what
\* ---- the task's port does; it returns the task's output dictionary

\* self.targets in order, as keys
targets ==
    <<"KOSPI_institutions", "KOSPI_foreigner", "KOSDAQ_institutions", "KOSDAQ_foreigner">>

RECURSIVE FetchLoopStopsAtFault(_, _, _)
\* (mutant) a loop that gives up at the first fault
FetchLoopStopsAtFault(todo, port, acc) ==
    IF todo = <<>> THEN acc
    ELSE LET key == Head(todo)
         IN  IF port[key] = "raise"
             THEN [acc EXCEPT !.called = @ \cup {key}, !.failed = @ \cup {key}]
             ELSE FetchLoopStopsAtFault(Tail(todo), port,
                      [acc EXCEPT !.called = @ \cup {key}, !.raw[key] = port[key]])

RECURSIVE FetchLoop(_, _, _)
\* the loop of FetchKrxNetValueTask.execute over the targets still to do:
\* the payloads collected, the keys that raised, the keys the port was
\* called for
FetchLoop(todo, port, acc) ==
    IF todo = <<>> THEN acc
    ELSE LET key == Head(todo)
         IN  IF port[key] = "raise"
             THEN FetchLoop(Tail(todo), port,
                      [acc EXCEPT !.called = @ \cup {key}, !.failed = @ \cup {key}])
             ELSE FetchLoop(Tail(todo), port,
                      [acc EXCEPT !.called = @ \cup {key}, !.raw[key] = port[key]])

\* the loop over all targets, from an empty raw_bytes_dict
FetchAll(port) ==
    FetchLoop(targets, port,
              [raw |-> [k \in Keys |-> "absent"], failed |-> {}, called |-> {}])

\* FetchKrxNetValueTask.execute; port \in [Keys -> FetchOutcomes]
FetchOutput(ctx, port) ==
    LET raw == FetchAll(port).raw
        failed == FetchAll(port).failed
    IN  IF \A k \in Keys : raw[k] = "absent"
        THEN [date_str |-> ctx.date_str, status |-> "error",
              raw_bytes_dict |-> NoVal, message |-> "all fetch failed"]
        ELSE [date_str |-> ctx.date_str,
              status |-> IF failed # {} THEN "partial_success" ELSE "success",
              raw_bytes_dict |-> Some(raw),
              message |-> IF failed # {} THEN "fetch partial" ELSE "fetch complete"]

\* `not raw_bytes_dict`: None or an empty dictionary
EmptyDict(raw) == raw = NoVal \/ \A k \in Keys : raw[1][k] = "absent"

\* StandardizeKrxDataTask.execute
StandardizeOutput(ctx) ==
    IF ctx.status = "error" \/ EmptyDict(ctx.raw_bytes_dict)
    THEN [date_str |-> ctx.date_str, status |-> "skipped",
          processed_dfs_dict |-> NoVal, message |-> "previous task failed"]
    ELSE LET raw == ctx.raw_bytes_dict[1]
             present == {k \in Keys : raw[k] # "absent"}
             processed == {k \in present : raw[k] = "good"}
             failed_keys == present \ processed
         IN  IF processed = {}
             THEN [date_str |-> ctx.date_str, status |-> "error",
                   processed_dfs_dict |-> NoVal, message |-> "all standardize failed"]
             ELSE [date_str |-> ctx.date_str,
                   status |-> IF failed_keys # {} THEN "partial_success" ELSE "success",
                   processed_dfs_dict |-> Some(processed),
                   message |-> IF failed_keys # {} THEN "standardize partial"
                               ELSE "standardize complete"]

\* `not processed_dfs_dict`: None or an empty dictionary
NoFrames(p) == p = NoVal \/ p[1] = {}

\* ProcessWatchlistTask.execute (every frame the standardizer keeps is
\* non-empty and has the name column, so stock_names_list is non-empty)
WatchlistOutput(ctx) ==
    IF ctx.status \in {"error", "skipped"} \/ NoFrames(ctx.processed_dfs_dict)
    THEN [date_str |-> ctx.date_str, status |-> "skipped",
          watchlist_df |-> None, message |-> "previous task failed"]
    ELSE [date_str |-> ctx.date_str, status |-> "success",
          watchlist_df |-> "frame", message |-> "watchlist created"]

\* UploadWatchlistTask.execute; saved = storage_port.save returned True
UploadWatchlistOutput(ctx, saved) ==
    IF ctx.status \in {"error", "skipped"} \/ ctx.watchlist_df = None
    THEN [date_str |-> ctx.date_str, status |-> "skipped",
          message |-> "previous task failed"]
    ELSE LET date_str == IF ctx.date_str = None THEN Today ELSE ctx.date_str
         IN  IF saved
             THEN [date_str |-> date_str, status |-> "success", message |-> "watchlist saved"]
             ELSE [date_str |-> date_str, status |-> "error", message |-> "save failed"]

\* UploadDailyReportsTask.execute; saved \in [Keys -> BOOLEAN] is what
\* storage_port.save does for each report
UploadDailyReportsOutput(ctx, saved) ==
    IF ctx.status \in {"error", "skipped"} \/ NoFrames(ctx.processed_dfs_dict)
    THEN [date_str |-> ctx.date_str, status |-> "skipped",
          message |-> "previous task failed"]
    ELSE LET saved_files == {k \in ctx.processed_dfs_dict[1] : saved[k]}
             failed_files == Keys \ saved_files
         IN  IF saved_files = {}
             THEN [date_str |-> ctx.date_str, status |-> "error",
                   message |-> "all reports failed"]
             ELSE [date_str |-> ctx.date_str,
                   status |-> IF failed_files # {} THEN "partial_success" ELSE "success",
                   message |-> IF failed_files # {} THEN "reports saved with failures"
                               ELSE "reports saved"]

\* self.report_targets in order
report_targets ==
    <<"KOSPI_foreigner", "KOSDAQ_foreigner", "KOSPI_institutions", "KOSDAQ_institutions">>

NoMasterCalls == [called |-> {}, success_files |-> {}]

RECURSIVE MasterLoopStopsAtFailure(_, _, _, _)
\* (mutant) a loop that gives up at the first key whose update fails
MasterLoopStopsAtFailure(todo, ctx, updated, acc) ==
    IF todo = <<>> THEN acc
    ELSE LET key == Head(todo)
         IN  IF key \notin ctx.processed_dfs_dict[1]
             THEN MasterLoopStopsAtFailure(Tail(todo), ctx, updated, acc)
             ELSE IF updated[key]
             THEN MasterLoopStopsAtFailure(Tail(todo), ctx, updated,
                      [acc EXCEPT !.called = @ \cup {key},
                                  !.success_files = @ \cup {key}])
             ELSE [acc EXCEPT !.called = @ \cup {key}]

\* (mutant) a loop that calls update_report for every key, frame or not
MasterLoopEveryKey(todo, ctx, updated, acc) ==
    [called |-> {todo[k] : k \in 1..Len(todo)},
     success_files |-> {todo[k] : k \in {j \in 1..Len(todo) : updated[todo[j]]}}]

RECURSIVE MasterLoop(_, _, _, _)
\* the loop of UpdateMasterReportsTask.execute over the keys still to do:
\* the keys update_report was called for and those it returned True for
\* (updated[key] FALSE: it returned False or raised)
MasterLoop(todo, ctx, updated, acc) ==
    IF todo = <<>> THEN acc
    ELSE LET key == Head(todo)
         IN  IF key \notin ctx.processed_dfs_dict[1]
             THEN MasterLoop(Tail(todo), ctx, updated, acc)
             ELSE IF updated[key]
             THEN MasterLoop(Tail(todo), ctx, updated,
                      [acc EXCEPT !.called = @ \cup {key},
                                  !.success_files = @ \cup {key}])
             ELSE MasterLoop(Tail(todo), ctx, updated,
                      [acc EXCEPT !.called = @ \cup {key}])

\* execute gets as far as the loop: date_str given and well formed, the
\* previous status not a failure, and some frame to hand over
MasterLoopReached(ctx) ==
    /\ ctx.date_str # None
    /\ ctx.status \notin {"error", "skipped"}
    /\ ~NoFrames(ctx.processed_dfs_dict)
    /\ ValidDateStr(ctx.date_str)

\* UpdateMasterReportsTask.execute; updated \in [Keys -> BOOLEAN] is what
\* report_port.update_report returns for each key
UpdateMasterReportsOutput(ctx, updated) ==
    IF ctx.date_str = None
    THEN [date_str |-> None, status |-> "error", message |-> "date_str missing"]
    ELSE IF ctx.status \in {"error", "skipped"} \/ NoFrames(ctx.processed_dfs_dict)
    THEN [date_str |-> ctx.date_str, status |-> "skipped",
          message |-> "previous task failed"]
    ELSE IF ~ValidDateStr(ctx.date_str)
    THEN [date_str |-> ctx.date_str, status |-> "error", message |-> "bad date_str"]
    ELSE LET success_files == MasterLoop(report_targets, ctx, updated,
                                         NoMasterCalls).success_files
             failed_files == Keys \ success_files
         IN  IF success_files = {}
             THEN [date_str |-> ctx.date_str, status |-> "error",
                   message |-> "all master updates failed"]
             ELSE [date_str |-> ctx.date_str,
                   status |-> IF failed_files # {} THEN "partial_success" ELSE "success",
                   message |-> IF failed_files # {} THEN "master updated with failures"
                               ELSE "master updated"]

\* UpdateRankingReportTask.execute; updated = report_port.update_ranking_report
\* returned True (False and an exception both end in the except branch)
UpdateRankingReportOutput(ctx, updated) ==
    IF ctx.date_str = None
    THEN [status |-> "skipped", message |-> "no date_str", common_stocks |-> Some(0)]
    ELSE IF ~ValidDateStr(ctx.date_str)
    THEN [status |-> "skipped", message |-> "bad date format", common_stocks |-> Some(0)]
    ELSE IF ctx.processed_dfs_dict = NoVal
    THEN [status |-> "skipped", message |-> "no processed_dfs_dict", common_stocks |-> Some(0)]
    ELSE IF ~(Keys \subseteq ctx.processed_dfs_dict[1])
    THEN [status |-> "skipped", message |-> "data missing for common stocks",
          common_stocks |-> Some(0)]
    ELSE IF updated
    THEN [status |-> "success", message |-> "ranking updated", common_stocks |-> Some(1)]
    ELSE [status |-> "error", message |-> "ranking update failed", common_stocks |-> Some(0)]

\* ---- DailyKrxNetValuePipeline.run

\* self.pipeline_steps, in execution order
pipeline_steps ==
    <<"FetchKrxNetValueTask", "StandardizeKrxDataTask", "ProcessWatchlistTask",
      "UploadWatchlistTask", "UploadDailyReportsTask", "UpdateMasterReportsTask",
      "UpdateRankingReportTask">>

\* the status and message of a task's output ("absent" for a missing key)
Produced(out) ==
    [status |-> IF "status" \in DOMAIN out THEN out.status ELSE "absent",
     message |-> IF "message" \in DOMAIN out THEN out.message ELSE "absent"]

\* The keys of the partial update each task returns (its *TaskOutput TypedDict),
\* by position in the task list.
OutputKeys(i) ==
    CASE i = 1 -> {"date_str", "status", "raw_bytes_dict", "message"}
      [] i = 2 -> {"date_str", "status", "processed_dfs_dict", "message"}
      [] i = 3 -> {"date_str", "status", "watchlist_df", "message"}
      [] i \in {4, 5, 6} -> {"date_str", "status", "message"}
      [] OTHER -> {"status", "message", "common_stocks"}

\* A task that consumes its input: the standardizer pops raw_bytes_dict from
\* the context it was handed.
InputAfterConsumed(i, ctx) ==
    IF i = 2 THEN [ctx EXCEPT !.raw_bytes_dict = NoVal] ELSE ctx

\* The context object as execute(context) of task i leaves it, before run()
\* merges the returned update: every task only reads it with context.get and
\* builds new objects from what it reads.
InputAfter(i, ctx) ==
    ctx

\* (mutant) a loop that runs a task a second time when its first output has
\* a halting status
PipelineStepWithRetry(i, out) ==
    /\ phase = "running" /\ pc = i
    /\ context' = Merge(InputAfter(i, context), out)
    /\ executed' = Append(executed, i)
    /\ trail' = Append(trail, Produced(out))
    /\ IF context'.status \in HaltStatuses /\ (executed = <<>> \/ executed[Len(executed)] # i)
          THEN phase' = "running" /\ pc' = pc
          ELSE IF context'.status \in HaltStatuses \/ i = Len(pipeline_steps)
                  THEN phase' = "done" /\ pc' = pc
                  ELSE phase' = "running" /\ pc' = i + 1
    /\ UNCHANGED <<result, raised>>
    /\ UNCHANGED <<stdVars, ledgerVars, snapVars, cliVars, baseVars>>

\* one pass of the for loop of run() in which execute of pipeline_steps[i]
\* returns out: the output is merged, then the status is tested
PipelineStep(i, out) ==
    /\ phase = "running" /\ pc = i
    /\ context' = Merge(InputAfter(i, context), out)
    /\ executed' = Append(executed, i)
    /\ trail' = Append(trail, Produced(out))
    /\ IF context'.status \in HaltStatuses \/ i = Len(pipeline_steps)
          THEN phase' = "done" /\ pc' = pc
          ELSE phase' = "running" /\ pc' = i + 1
    /\ UNCHANGED <<result, raised>>
    /\ UNCHANGED <<stdVars, ledgerVars, snapVars, cliVars, baseVars>>

FetchKrxNetValueTask ==
    \E port \in [Keys -> FetchOutcomes] :
        /\ PipelineStep(1, FetchOutput(context, port))
        /\ portLog' = [portLog EXCEPT !.fetch_called = FetchAll(port).called,
                                      !.fetch_failed = FetchAll(port).failed]

StandardizeKrxDataTask ==
    PipelineStep(2, StandardizeOutput(context)) /\ UNCHANGED portLog

ProcessWatchlistTask ==
    PipelineStep(3, WatchlistOutput(context)) /\ UNCHANGED portLog

UploadWatchlistTask ==
    \E saved \in BOOLEAN :
        PipelineStep(4, UploadWatchlistOutput(context, saved)) /\ UNCHANGED portLog

UploadDailyReportsTask ==
    \E saved \in [Keys -> BOOLEAN] :
        PipelineStep(5, UploadDailyReportsOutput(context, saved)) /\ UNCHANGED portLog

UpdateMasterReportsTask ==
    \E updated \in [Keys -> BOOLEAN] :
        /\ PipelineStep(6, UpdateMasterReportsOutput(context, updated))
        /\ portLog' =
              IF MasterLoopReached(context)
              THEN [portLog EXCEPT
                      !.ledger_ran = TRUE,
                      !.ledger_called = MasterLoop(report_targets, context, updated,
                                                   NoMasterCalls).called,
                      !.ledger_ok = MasterLoop(report_targets, context, updated,
                                               NoMasterCalls).success_files]
              ELSE portLog

UpdateRankingReportTask ==
    \E updated \in BOOLEAN :
        PipelineStep(7, UpdateRankingReportOutput(context, updated)) /\ UNCHANGED portLog

\* (mutant) an except branch that records the fault but does not break
TaskRaisesNoBreak ==
    /\ phase = "running"
    /\ \E msg \in Faults :
          /\ context' = Merge(context, [status |-> "critical_error", message |-> msg])
          /\ raised' = Some(msg)
    /\ executed' = Append(executed, pc)
    /\ trail' = trail
    /\ IF pc = Len(pipeline_steps)
          THEN phase' = "done" /\ pc' = pc
          ELSE phase' = "running" /\ pc' = pc + 1
    /\ UNCHANGED <<result, portLog>>
    /\ UNCHANGED <<stdVars, ledgerVars, snapVars, cliVars, baseVars>>

\* the except branch: execute of the current task raised e, str(e) = msg
TaskRaises ==
    /\ phase = "running"
    /\ \E msg \in Faults :
          /\ context' = Merge(context, [status |-> "critical_error", message |-> msg])
          /\ raised' = Some(msg)
    /\ executed' = Append(executed, pc)
    /\ trail' = trail
    /\ phase' = "done"
    /\ UNCHANGED <<pc, result, portLog>>
    /\ UNCHANGED <<stdVars, ledgerVars, snapVars, cliVars, baseVars>>

\* return context
Return ==
    /\ phase = "done"
    /\ result' = Some(context)
    /\ phase' = "returned"
    /\ UNCHANGED <<pc, context, executed, raised, portLog, trail>>
    /\ UNCHANGED <<stdVars, ledgerVars, snapVars, cliVars, baseVars>>

PipeInit ==
    /\ pc = 1 /\ phase = "running"
    /\ \E d \in DateStrs : context = InitialContext(d)
    /\ executed = <<>>
    /\ result = NoVal
    /\ raised = NoVal
    /\ portLog = NoPortCalls
    /\ trail = <<>>
    /\ StdIdle /\ LedgerIdle /\ SnapIdle /\ BaseIdle /\ CliIdle

PipeNext ==
    \/ FetchKrxNetValueTask
    \/ StandardizeKrxDataTask
    \/ ProcessWatchlistTask
    \/ UploadWatchlistTask
    \/ UploadDailyReportsTask
    \/ UpdateMasterReportsTask
    \/ UpdateRankingReportTask
    \/ TaskRaises
    \/ Return

SpecPipe == PipeInit /\ [][PipeNext]_vars

\* ---- run() over tasks of any kind: the loop takes whatever dictionary
\* ---- execute returns (the call is not type-checked)

\* the statuses a task's output can carry
TaskStatuses == {"success", "partial_success", "error", "skipped"}

\* the dictionaries execute can return: with a 'status' key, or without one
TaskOutputs ==
    [status : TaskStatuses, message : {"task message"}]
    \cup [message : {"no status"}]

\* the loop body for a task whose execute returned any of these dictionaries
AnyTask == (\E out \in TaskOutputs : PipelineStep(pc, out)) /\ UNCHANGED portLog

RunInit == PipeInit

RunNext == AnyTask \/ TaskRaises \/ Return

SpecRun == RunInit /\ [][RunNext]_vars

\* C11: once a task has returned a dictionary without 'status', the context
\* status is critical_error and that task is the last one executed.
C11_NoStatusIsCriticalError ==
    context.message = "no status"
        => context.status = "critical_error" /\ phase # "running"

(***************************************************************************)
(* Part 2.  The standardizer: process_krx_net_value_excel                  *)
(***************************************************************************)

\* bounds of the payloads
MaxRows == 3
MaxCols == 2
MaxValue == 2

\* df.head(20): the number of rows kept, scaled down for checking
TopK == 2

Min(a, b) == IF a < b THEN a ELSE b

\* one column besides the code and name columns: kw = its header contains
\* every keyword of NET_VALUE_KEYWORDS, numeric = select_dtypes(include=
\* ['number']) keeps it, vals = its cells (orderable values), top to bottom
Columns(n) == [kw : BOOLEAN, numeric : BOOLEAN, vals : [1..n -> 1..MaxValue]]

\* the payloads: b"", bytes read_excel rejects, or a sheet with n rows
Payloads ==
    {[kind |-> "empty", has_code |-> FALSE, has_name |-> FALSE, cols |-> <<>>],
     [kind |-> "unparseable", has_code |-> FALSE, has_name |-> FALSE, cols |-> <<>>]}
    \cup UNION {UNION {[kind : {"table"}, has_code : BOOLEAN, has_name : BOOLEAN,
                        cols : [1..c -> Columns(n)]] : c \in 1..MaxCols} : n \in 0..MaxRows}

NumRows(b) == Len(b.cols[1].vals)

\* lines 42-58: the first column whose header has all keywords, else the last
\* numeric column, else 0 (no column: the function returns an empty frame)
SortCol(b) ==
    LET kws == {c \in 1..Len(b.cols) : b.cols[c].kw}
        nums == {c \in 1..Len(b.cols) : b.cols[c].numeric}
    IN  IF kws # {} THEN CHOOSE c \in kws : \A d \in kws : c <= d
        ELSE IF nums # {} THEN CHOOSE c \in nums : \A d \in nums : d <= c
        ELSE 0

\* DataFrame.sort_values(by=sort_col, ascending=False) with the default
\* kind='quicksort': the result is ordered by value, descending; the order
\* among rows of equal value is not defined by the library (numpy's introsort
\* is not stable), so every descending arrangement is a possible indexer.
\* The tables here are short; they stand for the day's full KRX table, which
\* is far longer than the 16-element runs numpy sorts by insertion
SortIndexers(vals) ==
    {p \in Permutations(DOMAIN vals) :
        \A i, j \in DOMAIN vals : i < j => vals[p[i]] >= vals[p[j]]}

\* the frames the function can return for payload b: sequences of
\* [row |-> position of the row in the sheet, value |-> its sort value]
\* (row stands for the row's code and name cells); <<>> is pd.DataFrame()
ProcessResults(b) ==
    IF b.kind # "table" THEN {<<>>}
    ELSE IF SortCol(b) = 0 THEN {<<>>}
    ELSE IF ~(b.has_code /\ b.has_name) THEN {<<>>}
    ELSE LET vals == b.cols[SortCol(b)].vals
         IN  {[i \in 1..Min(TopK, Len(vals)) |-> [row |-> p[i], value |-> vals[p[i]]]] :
                 p \in SortIndexers(vals)}

\* one call of process_krx_net_value_excel(excel_bytes)
ProcessKrxNetValueExcel ==
    /\ excel_bytes.kind # "idle"
    /\ df_final = NoVal
    /\ \E out \in ProcessResults(excel_bytes) : df_final' = Some(out)
    /\ UNCHANGED excel_bytes
    /\ UNCHANGED <<pipeVars, ledgerVars, snapVars, cliVars, baseVars>>

StdInit ==
    /\ excel_bytes \in Payloads
    /\ df_final = NoVal
    /\ PipeIdle /\ LedgerIdle /\ SnapIdle /\ BaseIdle /\ CliIdle

StdNext == ProcessKrxNetValueExcel

SpecStd == StdInit /\ [][StdNext]_vars

\* the payload is a sheet the function accepts
Standardizable(b) ==
    b.kind = "table" /\ SortCol(b) # 0 /\ b.has_code /\ b.has_name

\* C8: for a sheet of N rows the output has min(K, N) rows, sorted by value
\* descending, and rows of equal value keep their original relative order.
C8_TopKStableDescending ==
    (df_final # NoVal /\ Standardizable(excel_bytes)) =>
        LET out == df_final[1]
        IN  /\ Len(out) = Min(TopK, NumRows(excel_bytes))
            /\ \A i, j \in 1..Len(out) : i < j => out[i].value >= out[j].value
            /\ \A i, j \in 1..Len(out) :
                  (i < j /\ out[i].value = out[j].value) => out[i].row < out[j].row

(***************************************************************************)
(* Part 3.  The ledger: ExcelMasterAdapter.update_report                   *)
(***************************************************************************)

\* bounds of the ledger runs
MaxCalls == 2
MaxDailyRows == 2
MaxAmount == 2

\* the report keys whose files are followed
LedgerKeys == {"KOSPI_foreigner"}

\* report_date.strftime('%Y%m%d') as an integer, for the dates reported
LedgerDates == {20251023, 20251024, 20251103}

Symbols == {"A", "B"}

\* net-buy amounts of one row (they can be negative)
Amounts == {-1} \cup {10 * MaxAmount}

\* daily_data: the standardized frame of one category, rows of name and value
\* (a day's KRX table lists a stock once)
DailyData ==
    UNION {{rows \in [1..n -> [name : Symbols, value : Amounts]] :
               \A i, j \in 1..n : i # j => rows[i].name # rows[j].name} :
           n \in 1..MaxDailyRows}

RECURSIVE SumSeq(_)
SumSeq(q) == IF q = <<>> THEN 0 ELSE Head(q) + SumSeq(Tail(q))

RECURSIVE SortedSeq(_)
\* the elements of a set of integers in ascending order
SortedSeq(S) ==
    IF S = {} THEN <<>>
    ELSE LET m == CHOOSE x \in S : \A y \in S : x <= y
         IN  <<m>> \o SortedSeq(S \ {m})

\* list.insert(i, x) for a Python index i
PyInsert(q, i, x) ==
    LET n == Len(q)
        at == IF i < 0 THEN (IF n + i < 0 THEN 0 ELSE n + i)
              ELSE (IF i > n THEN n ELSE i)
    IN  SubSeq(q, 1, at) \o <<x>> \o SubSeq(q, at + 1, n)

\* ---- sheets and workbooks

\* a worksheet: its title, the rows below the header of a raw-row sheet
\* (date, symbol, amount), and the date columns and rows of a pivot sheet
Sheet(title, raw, cols, pivot) ==
    [title |-> title, raw |-> raw, cols |-> cols, pivot |-> pivot]

HasSheet(book, title) == \E i \in 1..Len(book) : book[i].title = title

\* book.sheetnames.index(title), counted from 1
IndexOf(book, title) ==
    CHOOSE i \in 1..Len(book) :
        book[i].title = title /\ \A j \in 1..(i - 1) : book[j].title # title

\* book.remove(book[title])
RemoveSheet(book, title) ==
    LET i == IndexOf(book, title)
    IN  SubSeq(book, 1, i - 1) \o SubSeq(book, i + 1, Len(book))

MonthAbbr ==
    <<"JAN", "FEB", "MAR", "APR", "MAY", "JUN", "JUL", "AUG", "SEP", "OCT", "NOV", "DEC">>

\* report_date.strftime('%b').upper()
SheetName(date_int) == MonthAbbr[(date_int \div 100) % 100]

\* report_date.strftime('%m%d')
PivotSheetName(date_int) ==
    LET mmdd == date_int % 10000
    IN  IF mmdd < 1000 THEN "0" \o ToString(mmdd) ELSE ToString(mmdd)

\* ---- cleaning of the amount column (lines 155-164)

DigitChars == <<"0", "1", "2", "3", "4", "5", "6", "7", "8", "9">>

IsDigit(c) == \E k \in 1..10 : DigitChars[k] = c

RECURSIVE Digits(_)
Digits(n) ==
    IF n < 10 THEN <<DigitChars[n + 1]>>
    ELSE Digits(n \div 10) \o <<DigitChars[(n % 10) + 1]>>

\* astype(str) of an integer cell, as a sequence of characters
AsStr(v) == IF v < 0 THEN <<"-">> \o Digits(-v) ELSE Digits(v)

\* (mutant) a pattern that also removes the sign
KeepsDigitsOnly(c) == IsDigit(c) \/ c = "."

\* the characters str.replace(r'[^0-9.-]', '', regex=True) keeps
Keeps(c) == IsDigit(c) \/ c = "." \/ c = "-"

StripAmount(str) == SelectSeq(str, Keeps)

RECURSIVE DigitsValue(_)
DigitsValue(str) ==
    IF str = <<>> THEN 0
    ELSE 10 * DigitsValue(SubSeq(str, 1, Len(str) - 1))
         + ((CHOOSE k \in 1..10 : DigitChars[k] = str[Len(str)]) - 1)

AllDigits(str) == str # <<>> /\ \A i \in 1..Len(str) : IsDigit(str[i])

\* replace('', 0), pd.to_numeric(errors='coerce'), fillna(0)
ToNumeric(str) ==
    IF str = <<>> THEN 0
    ELSE IF AllDigits(str) THEN DigitsValue(str)
    ELSE IF str[1] = "-" /\ AllDigits(Tail(str)) THEN 0 - DigitsValue(Tail(str))
    ELSE 0

CleanAmount(v) == ToNumeric(StripAmount(AsStr(v)))

\* ---- the pivot (lines 169-186)

RECURSIVE SumCleaned(_, _)
\* the sum of the cleaned amounts of the rows of full_data_df at positions I
SumCleaned(full, I) ==
    IF I = {} THEN 0
    ELSE LET i == CHOOSE x \in I : TRUE
         IN  CleanAmount(full[i].amt) + SumCleaned(full, I \ {i})

\* one cell of pd.pivot_table(values, index=symbol, columns=date, aggfunc=
\* 'sum'): <<the sum>>, or <<>> (NaN) when the symbol has no row on that date
PivotCell(full, sym, date) ==
    LET I == {i \in 1..Len(full) : full[i].sym = sym /\ full[i].date = date}
    IN  IF I = {} THEN <<>> ELSE <<SumCleaned(full, I)>>

\* one row of the pivot with its total: pivot_df.sum(axis=1) skips NaN
PivotRow(full, cols, sym) ==
    LET cells == [c \in 1..Len(cols) |-> PivotCell(full, sym, cols[c])]
    IN  [sym |-> sym, cells |-> cells,
         total |-> SumSeq([c \in 1..Len(cols) |->
                              IF cells[c] = <<>> THEN 0 ELSE cells[c][1]])]

\* pivot_df.sort_values(by=total, ascending=False): the frames it can give
\* (the order among equal totals is not defined, as for SortIndexers)
PivotFrames(full) ==
    IF full = <<>> THEN {[cols |-> <<>>, rows |-> <<>>]}
    ELSE LET cols == SortedSeq({full[i].date : i \in 1..Len(full)})
             syms == {full[i].sym : i \in 1..Len(full)}
             n == Cardinality(syms)
             orders == {p \in [1..n -> syms] :
                          /\ \A i, j \in 1..n : i # j => p[i] # p[j]
                          /\ \A i, j \in 1..n : i < j =>
                                PivotRow(full, cols, p[i]).total
                                    >= PivotRow(full, cols, p[j]).total}
         IN  {[cols |-> cols, rows |-> [i \in 1..n |-> PivotRow(full, cols, p[i])]] :
                 p \in orders}

\* ---- update_report

\* the raw-row sheet of the month of date_int in a file (<<>> when missing)
RawRowsOf(file, date_int) ==
    IF file.exists /\ HasSheet(file.sheets, SheetName(date_int))
    THEN file.sheets[IndexOf(file.sheets, SheetName(date_int))].raw
    ELSE <<>>

\* (mutant) no fast skip
NeverSkip(file, pivot_sheet_name) == FALSE

\* lines 67-86: the file exists and already has the day's pivot sheet
ShouldSkip(file, pivot_sheet_name) ==
    file.exists /\ HasSheet(file.sheets, pivot_sheet_name)

\* (mutant) rows of a recorded date are appended again
NeverDuplicate(existing_df, date_int) == FALSE

\* line 135: date_int in existing_df['date'].values
IsDuplicate(existing_df, date_int) ==
    \E i \in 1..Len(existing_df) : existing_df[i].date = date_int

\* lines 94-100: the new rows in the sheet's schema
Formatted(daily_data, date_int) ==
    [i \in 1..Len(daily_data) |->
        [date |-> date_int, sym |-> daily_data[i].name, amt |-> daily_data[i].value]]

\* (mutant) the new rows replace the rows of the month's sheet
WriteRawSheetReplacing(book, sheet_name, sheet_exists, new_data) ==
    IF new_data = <<>> THEN book
    ELSE IF sheet_exists
    THEN LET i == IndexOf(book, sheet_name)
         IN  [book EXCEPT ![i].raw = new_data]
    ELSE PyInsert(book, IF Len(book) > 0 THEN Len(book) - 1 ELSE 0,
                  Sheet(sheet_name, new_data, <<>>, <<>>))

\* lines 201-221: the raw-row sheet gets the new rows
WriteRawSheet(book, sheet_name, sheet_exists, new_data) ==
    IF new_data = <<>> THEN book
    ELSE IF sheet_exists
    THEN LET i == IndexOf(book, sheet_name)
         IN  [book EXCEPT ![i].raw = book[i].raw \o new_data]
    ELSE PyInsert(book, IF Len(book) > 0 THEN Len(book) - 1 ELSE 0,
                  Sheet(sheet_name, new_data, <<>>, <<>>))

\* lines 227-270: the day's pivot sheet is (re)created in front of the raw sheet
WritePivotSheet(book, sheet_name, pivot_sheet_name, frame) ==
    LET kept == IF HasSheet(book, pivot_sheet_name)
                THEN RemoveSheet(book, pivot_sheet_name) ELSE book
        data_sheet_index == IF HasSheet(kept, sheet_name)
                            THEN IndexOf(kept, sheet_name) - 1 ELSE -1
    IN  PyInsert(kept, data_sheet_index,
                 Sheet(pivot_sheet_name, <<>>, frame.cols, frame.rows))

\* the outcomes of update_report on one file: the file afterwards, the value
\* returned, whether the fast skip was taken, whether book.save was called
UpdateReportResults(file, date_int, daily_data) ==
    LET sheet_name == SheetName(date_int)
        pivot_sheet_name == PivotSheetName(date_int)
    IN  IF ShouldSkip(file, pivot_sheet_name)
        THEN {[file |-> file, ret |-> TRUE, skipped |-> TRUE, saved |-> FALSE]}
        ELSE LET sheet_exists == file.exists /\ HasSheet(file.sheets, sheet_name)
                 existing_df == IF sheet_exists
                                THEN file.sheets[IndexOf(file.sheets, sheet_name)].raw
                                ELSE <<>>
                 new_data_formatted == IF IsDuplicate(existing_df, date_int) THEN <<>>
                                       ELSE Formatted(daily_data, date_int)
                 full_data_df == existing_df \o new_data_formatted
                 book == WriteRawSheet(file.sheets, sheet_name, sheet_exists,
                                       new_data_formatted)
             IN  {[file |-> [exists |-> TRUE,
                             sheets |-> WritePivotSheet(book, sheet_name,
                                                        pivot_sheet_name, frame)],
                   ret |-> TRUE, skipped |-> FALSE, saved |-> TRUE] :
                     frame \in PivotFrames(full_data_df)}

\* one call report_port.update_report(report_key, daily_data, report_date);
\* lastCall records the call for the properties: its arguments and outcome,
\* whether it repeats the arguments of the call before it, whether the file
\* had the day's pivot sheet and which rows the month's raw-row sheet had when
\* it began, whether it changed the file, (views) the <<key, date>> pairs
\* for which the calls so far wrote a pivot sheet, and (first) for each key
\* and date the rows of the first call that returned True, for the dates the
\* raw-row sheet had no row of before that call
UpdateReportOn(dates) ==
    /\ ncalls < MaxCalls
    /\ \E key \in LedgerKeys, date_int \in dates, daily_data \in DailyData :
          \E r \in UpdateReportResults(files[key], date_int, daily_data) :
              /\ files' = [files EXCEPT ![key] = r.file]
              /\ lastCall' = [key |-> key, date |-> date_int, rows |-> daily_data,
                              ret |-> r.ret, skipped |-> r.skipped,
                              again |-> /\ lastCall.key = key
                                        /\ lastCall.date = date_int
                                        /\ lastCall.rows = daily_data,
                              hadView |-> /\ files[key].exists
                                          /\ HasSheet(files[key].sheets,
                                                      PivotSheetName(date_int)),
                              rawBefore |-> RawRowsOf(files[key], date_int),
                              changed |-> r.file # files[key],
                              views |-> lastCall.views \cup
                                          (IF r.saved THEN {<<key, date_int>>}
                                           ELSE {}),
                              sheetsBefore |-> files[key].sheets,
                              first |-> lastCall.first \cup
                                  (IF /\ r.ret
                                      /\ LET before == RawRowsOf(files[key], date_int)
                                         IN  \A i \in 1..Len(before) :
                                                before[i].date # date_int
                                      /\ \A f \in lastCall.first :
                                             f.key # key \/ f.date # date_int
                                   THEN {[key |-> key, date |-> date_int,
                                          rows |-> daily_data]}
                                   ELSE {})]
              /\ saves' = saves + (IF r.saved THEN 1 ELSE 0)
    /\ ncalls' = ncalls + 1
    /\ UNCHANGED <<pipeVars, stdVars, snapVars, storeVars, procs, cliVars, baseVars>>

UpdateReport == UpdateReportOn(LedgerDates)

\* the workbooks found before the first call: no file; a workbook kept by
\* hand with only the grand-summary sheet (the last sheet the adapter inserts
\* in front of); a workbook whose month sheet already has one day's row but
\* no pivot sheet for that day (written by a revision without pivot sheets,
\* or its pivot sheet was deleted)
SummarySheet == Sheet("SUMMARY", <<>>, <<>>, <<>>)

PriorFiles ==
    {NoFile, [exists |-> TRUE, sheets |-> <<SummarySheet>>]}
    \cup {[exists |-> TRUE,
           sheets |-> <<Sheet(SheetName(d), Formatted(rows, d), <<>>, <<>>), SummarySheet>>] :
             d \in {20251023}, rows \in {r \in DailyData : Len(r) = 1}}

LedgerInit ==
    /\ files \in [LedgerKeys -> PriorFiles]
    /\ lastCall = NoCall /\ ncalls = 0 /\ saves = 0
    /\ StoresIdle /\ procs = <<>>
    /\ PipeIdle /\ StdIdle /\ SnapIdle /\ BaseIdle /\ CliIdle

LedgerNext == UpdateReport

\* ---- the same adapter across a year's end: file_map names one file per
\* ---- report key whatever the year of report_date (file_name_prefix is
\* ---- fixed at construction), so both dates go to the same workbook
YearDates == {20251023, 20261023}

UpdateReportAcrossYears == UpdateReportOn(YearDates)

YearsNext == UpdateReportAcrossYears

SpecYears == LedgerInit /\ [][YearsNext]_vars

SpecLedger == LedgerInit /\ [][LedgerNext]_vars

(***************************************************************************)
(* Part 3b.  Saving the ledger workbook to the target storages:            *)
(* MasterWorkbookAdapter.save_workbook                                     *)
(***************************************************************************)
MaxSaves == 2
MaxStores == 2

\* target_storages, in list order; source_storage is the first of them
StoreIds == 1..MaxStores
source_storage == 1

\* new_data of one call: the formatted rows of one day, or an empty frame
NewData(date_int) ==
    {<<>>} \cup {Formatted(rows, date_int) : rows \in {r \in DailyData : Len(r) = 1}}

\* MasterSheetAdapter.update_raw_sheet
UpdateRawSheet(book, sheet_name, new_data, sheet_exists) ==
    IF sheet_exists /\ HasSheet(book, sheet_name)
    THEN LET i == IndexOf(book, sheet_name)
         IN  [book EXCEPT ![i].raw = book[i].raw \o new_data]
    ELSE PyInsert(book, IF Len(book) > 0 THEN Len(book) - 1 ELSE 0,
                  Sheet(sheet_name, new_data, <<>>, <<>>))

\* MasterPivotSheetAdapter.create_pivot_sheet
CreatePivotSheet(book, sheet_name, pivot_sheet_name, pivot_data) ==
    LET kept == IF HasSheet(book, pivot_sheet_name)
                THEN RemoveSheet(book, pivot_sheet_name) ELSE book
        data_sheet_index == IF HasSheet(kept, sheet_name)
                            THEN IndexOf(kept, sheet_name) - 1 ELSE 0
    IN  PyInsert(kept, data_sheet_index,
                 Sheet(pivot_sheet_name, <<>>, pivot_data.cols, pivot_data.rows))

\* steps 1-3 of save_workbook: the workbook it assembles in memory
AssembledBook(loaded, sheet_name, pivot_sheet_name, new_data, pivot_data, sheet_exists) ==
    LET book == IF loaded.exists THEN loaded.sheets ELSE <<>>
        with_raw == IF new_data # <<>>
                    THEN UpdateRawSheet(book, sheet_name, new_data, sheet_exists)
                    ELSE book
    IN  CreatePivotSheet(with_raw, sheet_name, pivot_sheet_name, pivot_data)

\* one call save_workbook(file_path, ...): the workbook is loaded from the
\* source storage and assembled; then storage.save_workbook(book, file_path)
\* is called on every target in turn, each call writing the file and
\* returning True or leaving the file and returning False (ok); an exception
\* before the loop (fault) leaves every storage alone.  lastSave records the
\* call: the assembled workbook, what every storage held before, the
\* storages written.
SaveWorkbook ==
    /\ nsaves < MaxSaves
    /\ \E date_int \in LedgerDates, fault \in BOOLEAN, ok \in [StoreIds -> BOOLEAN] :
         \E new_data \in NewData(date_int) :
          LET loaded == stores[source_storage]
              sheet_name == SheetName(date_int)
              pivot_sheet_name == PivotSheetName(date_int)
              sheet_exists == loaded.exists /\ HasSheet(loaded.sheets, sheet_name)
              existing == IF sheet_exists
                          THEN loaded.sheets[IndexOf(loaded.sheets, sheet_name)].raw
                          ELSE <<>>
          IN  \E pivot_data \in PivotFrames(existing \o new_data) :
                LET book == AssembledBook(loaded, sheet_name, pivot_sheet_name,
                                          new_data, pivot_data, sheet_exists)
                    saved == IF fault THEN {} ELSE {t \in StoreIds : ok[t]}
                IN  /\ stores' = [t \in StoreIds |->
                                     IF t \in saved
                                     THEN [exists |-> TRUE, sheets |-> book]
                                     ELSE stores[t]]
                    /\ lastSave' = [date |-> date_int,
                                    ret |-> ~fault /\ saved = StoreIds,
                                    book |-> book, before |-> stores,
                                    saved |-> saved]
    /\ nsaves' = nsaves + 1
    /\ UNCHANGED <<files, lastCall, ncalls, saves, procs>>
    /\ UNCHANGED <<pipeVars, stdVars, snapVars, cliVars, baseVars>>

\* every storage starts with the same workbook (or none)
StoresInit ==
    /\ \E f \in {NoFile, [exists |-> TRUE, sheets |-> <<SummarySheet>>]} :
          stores = [t \in StoreIds |-> f]
    /\ lastSave = NoSave /\ nsaves = 0
    /\ files = <<>> /\ lastCall = NoCall /\ ncalls = 0 /\ saves = 0 /\ procs = <<>>
    /\ PipeIdle /\ StdIdle /\ SnapIdle /\ BaseIdle /\ CliIdle

StoresNext == SaveWorkbook

SpecStores == StoresInit /\ [][StoresNext]_vars

(***************************************************************************)
(* Part 3c.  Two update_report calls for one key and one date that overlap *)
(* in time: each call is the sequence of its accesses to the file          *)
(***************************************************************************)
MaxProcs == 2

Procs == 1..MaxProcs

RaceKey == "KOSPI_foreigner"

RaceDate == 20251024

NoFrame == [cols |-> <<>>, rows |-> <<>>]

\* a call that has not started: it is at the fast-skip check
ProcStart(daily_data) ==
    [pc |-> "check", rows |-> daily_data, sheet_exists |-> FALSE,
     new_data |-> <<>>, pivot |-> NoFrame, book |-> <<>>, ret |-> FALSE]

\* lines 67-86: os.path.exists and the read of the sheet names
RaceCheck(p) ==
    /\ procs[p].pc = "check"
    /\ procs' = [procs EXCEPT ![p] =
                    IF ShouldSkip(files[RaceKey], PivotSheetName(RaceDate))
                    THEN [@ EXCEPT !.pc = "done", !.ret = TRUE]
                    ELSE [@ EXCEPT !.pc = "read"]]
    /\ UNCHANGED files

\* lines 106-186: pd.read_excel of the raw-row sheet, the duplicate-date test
\* and the pivot, all from what the file holds at this moment
RaceRead(p) ==
    /\ procs[p].pc = "read"
    /\ LET file == files[RaceKey]
           sheet_name == SheetName(RaceDate)
           sheet_exists == file.exists /\ HasSheet(file.sheets, sheet_name)
           existing_df == IF sheet_exists
                          THEN file.sheets[IndexOf(file.sheets, sheet_name)].raw
                          ELSE <<>>
           new_data_formatted == IF IsDuplicate(existing_df, RaceDate) THEN <<>>
                                 ELSE Formatted(procs[p].rows, RaceDate)
       IN  \E frame \in PivotFrames(existing_df \o new_data_formatted) :
              procs' = [procs EXCEPT ![p] =
                           [@ EXCEPT !.pc = "load", !.sheet_exists = sheet_exists,
                                     !.new_data = new_data_formatted,
                                     !.pivot = frame]]
    /\ UNCHANGED files

\* lines 191-196: openpyxl.load_workbook(file_path), or a new workbook
RaceLoad(p) ==
    /\ procs[p].pc = "load"
    /\ procs' = [procs EXCEPT ![p] =
                    [@ EXCEPT !.pc = "save",
                              !.book = IF files[RaceKey].exists
                                       THEN files[RaceKey].sheets ELSE <<>>]]
    /\ UNCHANGED files

\* book.create_sheet(title): a title in use gets a number appended
FreeTitle(book, title) ==
    IF HasSheet(book, title) THEN title \o "1" ELSE title

\* lines 201-221 on the workbook the call loaded, with the sheet_exists and
\* new_data_formatted it computed before: <<the workbook>>, or <<>> when
\* book[sheet_name] raises KeyError
RaceWriteRawSheet(book, sheet_name, sheet_exists, new_data) ==
    IF new_data = <<>> THEN <<book>>
    ELSE IF sheet_exists
    THEN IF HasSheet(book, sheet_name)
         THEN <<WriteRawSheet(book, sheet_name, TRUE, new_data)>>
         ELSE <<>>
    ELSE <<PyInsert(book, IF Len(book) > 0 THEN Len(book) - 1 ELSE 0,
                    Sheet(FreeTitle(book, sheet_name), new_data, <<>>, <<>>))>>

\* lines 201-313: the sheets are written into the loaded workbook and
\* book.save(file_path) replaces the file; an exception returns False
RaceSave(p) ==
    /\ procs[p].pc = "save"
    /\ LET sheet_name == SheetName(RaceDate)
           written == RaceWriteRawSheet(procs[p].book, sheet_name,
                                        procs[p].sheet_exists, procs[p].new_data)
       IN  IF written = <<>>
           THEN /\ procs' = [procs EXCEPT ![p] = [@ EXCEPT !.pc = "done", !.ret = FALSE]]
                /\ UNCHANGED files
           ELSE /\ files' = [files EXCEPT ![RaceKey] =
                               [exists |-> TRUE,
                                sheets |-> WritePivotSheet(written[1], sheet_name,
                                                           PivotSheetName(RaceDate),
                                                           procs[p].pivot)]]
                /\ procs' = [procs EXCEPT ![p] = [@ EXCEPT !.pc = "done", !.ret = TRUE]]

RaceStep(p) ==
    /\ (RaceCheck(p) \/ RaceRead(p) \/ RaceLoad(p) \/ RaceSave(p))
    /\ UNCHANGED <<lastCall, ncalls, saves, storeVars>>
    /\ UNCHANGED <<pipeVars, stdVars, snapVars, cliVars, baseVars>>

RaceInit ==
    /\ files \in [LedgerKeys -> PriorFiles]
    /\ procs \in [Procs -> {ProcStart(rows) : rows \in {r \in DailyData : Len(r) = 1}}]
    /\ lastCall = NoCall /\ ncalls = 0 /\ saves = 0
    /\ StoresIdle
    /\ PipeIdle /\ StdIdle /\ SnapIdle /\ BaseIdle /\ CliIdle

RaceNext == \E p \in Procs : RaceStep(p)

SpecRace == RaceInit /\ [][RaceNext]_vars

(***************************************************************************)
(* Claims about the ledger                                                 *)
(***************************************************************************)

RECURSIVE RawTotal(_, _)
\* the sum of a symbol's amounts over the rows of a raw-row sheet
RawTotal(raw, sym) ==
    IF raw = <<>> THEN 0
    ELSE (IF Head(raw).sym = sym THEN Head(raw).amt ELSE 0) + RawTotal(Tail(raw), sym)

\* a raw-row sheet has rows recorded for the date
HasRowsOf(raw, date_int) == \E i \in 1..Len(raw) : raw[i].date = date_int

\* the call just made went through to book.save
LastCallSaved == lastCall.key # "none" /\ ~lastCall.skipped

\* the pivot sheet the call just made wrote
LastPivot ==
    LET book == files[lastCall.key].sheets
    IN  book[IndexOf(book, PivotSheetName(lastCall.date))]

\* C3: a call of update_report with the same report key, date and rows as the
\* call before it leaves the file as that call left it.
C3_SecondCallChangesNothing ==
    (lastCall.key # "none" /\ lastCall.again) => ~lastCall.changed

\* C3 witness: the same call was made twice in a row, the first one wrote the
\* file and the second one returned True.
C3_Witness ==
    /\ ncalls = 2 /\ saves = 1
    /\ lastCall.again /\ lastCall.ret
    /\ HasSheet(files[lastCall.key].sheets, PivotSheetName(lastCall.date))

\* C4 as stated: whenever the month's raw-row sheet already has rows of the
\* date, the call appends no raw row, writes the pivot of the month's existing
\* raw rows, saves and returns True.
C4_DuplicateDateRecomputes ==
    (lastCall.key # "none" /\ HasRowsOf(lastCall.rawBefore, lastCall.date))
        => /\ lastCall.ret /\ ~lastCall.skipped
           /\ RawRowsOf(files[lastCall.key], lastCall.date) = lastCall.rawBefore
           /\ [cols |-> LastPivot.cols, rows |-> LastPivot.pivot]
                  \in PivotFrames(lastCall.rawBefore)

\* C4 amended: when the month's raw-row sheet already has rows of the date and
\* the file has no pivot sheet of that date, the call appends no raw row,
\* writes the pivot of the month's existing raw rows, saves and returns True.
C4_DuplicateDateWithoutViewRecomputes ==
    (/\ lastCall.key # "none"
     /\ HasRowsOf(lastCall.rawBefore, lastCall.date)
     /\ ~lastCall.hadView)
        => /\ lastCall.ret /\ ~lastCall.skipped
           /\ RawRowsOf(files[lastCall.key], lastCall.date) = lastCall.rawBefore
           /\ [cols |-> LastPivot.cols, rows |-> LastPivot.pivot]
                  \in PivotFrames(lastCall.rawBefore)

\* C4 witness: a call whose rows differ from the rows already recorded for its
\* date, on a file without that day's pivot sheet, has saved the pivot.
C4_Witness ==
    /\ LastCallSaved /\ ~lastCall.hadView /\ lastCall.ret
    /\ HasRowsOf(lastCall.rawBefore, lastCall.date)
    /\ \A i \in 1..Len(lastCall.rawBefore) :
          \A j \in 1..Len(lastCall.rows) :
              lastCall.rows[j].value # lastCall.rawBefore[i].amt
    /\ LastPivot.pivot # <<>>

\* C5: a call on a file that already has the pivot sheet of the date returns
\* True without book.save, and the file is the same before and after.
C5_FastSkipWritesNothing ==
    (lastCall.key # "none" /\ lastCall.hadView)
        => lastCall.ret /\ lastCall.skipped /\ ~lastCall.changed /\ saves < ncalls

\* C5 witness: a call found the day's pivot sheet in the file and returned True.
C5_Witness ==
    lastCall.key # "none" /\ lastCall.hadView /\ lastCall.ret /\ ~lastCall.again

\* C7: in the pivot sheet a call has just saved, every symbol of the month's
\* raw-row sheet has one row, and the row's total is the sum of the symbol's
\* amounts over all rows of that raw-row sheet.
C7_TotalIsSumOfRawRows ==
    LastCallSaved =>
        LET raw == RawRowsOf(files[lastCall.key], lastCall.date)
            pivot == LastPivot.pivot
        IN  /\ {pivot[i].sym : i \in 1..Len(pivot)} = {raw[i].sym : i \in 1..Len(raw)}
            /\ \A i \in 1..Len(pivot) : pivot[i].total = RawTotal(raw, pivot[i].sym)

\* C7 witness: a saved pivot over two dates with a symbol that has a negative
\* and a positive amount.
C7_Witness ==
    /\ LastCallSaved
    /\ Len(LastPivot.cols) = 2
    /\ \E i \in 1..Len(LastPivot.pivot) :
          /\ LastPivot.pivot[i].cells[1] = <<-1>>
          /\ LastPivot.pivot[i].cells[2] = <<10 * MaxAmount>>
          /\ LastPivot.pivot[i].total = 10 * MaxAmount - 1

(***************************************************************************)
(* Part 4.  The snapshot: ExcelRankingReportAdapter.update_ranking_report  *)
(***************************************************************************)

\* bound of the snapshot runs
MaxUpdates == 2

\* rows pasted per list (20 in the adapter, scaled)
TOP_N_TO_PASTE == 2

LAYOUT_MAP ==
    [KOSPI_foreigner |-> [stock_col |-> "D", value_col |-> "E", start_row |-> 5, market |-> "KOSPI"],
     KOSPI_institutions |-> [stock_col |-> "F", value_col |-> "G", start_row |-> 5, market |-> "KOSPI"],
     KOSDAQ_foreigner |-> [stock_col |-> "I", value_col |-> "J", start_row |-> 5, market |-> "KOSDAQ"],
     KOSDAQ_institutions |-> [stock_col |-> "K", value_col |-> "L", start_row |-> 5, market |-> "KOSDAQ"]]

\* LAYOUT_MAP.items() in insertion order
LayoutOrder ==
    <<"KOSPI_foreigner", "KOSPI_institutions", "KOSDAQ_foreigner", "KOSDAQ_institutions">>

\* the cells of DATA_RANGE_TO_CLEAR, "D5:L24": <<row, column>>
DATA_RANGE_TO_CLEAR ==
    (5..(5 + TOP_N_TO_PASTE - 1)) \X {"D", "E", "F", "G", "H", "I", "J", "K", "L"}

COLUMNS_TO_AUTOFIT == {"D", "F", "I", "K"}

korean_weekdays == <<"MON", "TUE", "WED", "THU", "FRI", "SAT", "SUN">>

\* report_date.weekday(): 0 for Monday
Weekday(date_int) ==
    LET month == (date_int \div 100) % 100
        day == date_int % 100
        year == (date_int \div 10000) - (IF month < 3 THEN 1 ELSE 0)
        offset == <<0, 3, 2, 5, 0, 3, 5, 1, 4, 6, 2, 4>>
        sunday0 == (year + (year \div 4) - (year \div 100) + (year \div 400)
                    + offset[month] + day) % 7
    IN  (sunday0 + 6) % 7

\* report_date.strftime('%m%d')
NewSheetName(date_int) == PivotSheetName(date_int)

\* a cell of the data area: its value (<<>> for None) and its fill
BlankCell == [value |-> <<>>, fill |-> "none"]

\* a sheet of the ranking workbook: title, the two header cells, the cells of
\* the data area, the columns with bestFit set, and whether it carries parts
\* copy_worksheet leaves behind (images, charts, conditional formats)
RankingSheet(title, a5, b5, cells, bestFit, extras) ==
    [title |-> title, A5 |-> a5, B5 |-> b5, cells |-> cells,
     bestFit |-> bestFit, extras |-> extras]

\* book.copy_worksheet(source_sheet): cells, styles and dimensions
CopyWorksheet(source_sheet) ==
    [source_sheet EXCEPT !.title = source_sheet.title \o " Copy", !.extras = FALSE]

\* (mutant) an existing sheet of the date is kept
KeepExisting(book, new_sheet_name) == book

\* lines 87-89
RemoveExisting(book, new_sheet_name) ==
    IF HasSheet(book, new_sheet_name) THEN RemoveSheet(book, new_sheet_name) ELSE book

\* _update_sheet_headers
UpdateSheetHeaders(sheet, date_int) ==
    [sheet EXCEPT !.A5 = ToString(date_int % 100) \o " day",
                  !.B5 = korean_weekdays[Weekday(date_int) + 1]]

\* _clear_data_area
ClearDataArea(cells) == [rc \in DATA_RANGE_TO_CLEAR |-> BlankCell]

\* _paste_single_list: the cells afterwards; the count is PastedCount
PastedCount(df) == Min(Len(df), TOP_N_TO_PASTE)

PasteSingleList(cells, df, layout) ==
    [rc \in DOMAIN cells |->
        LET i == rc[1] - layout.start_row + 1
            cell == cells[rc]
        IN  IF i \in 1..PastedCount(df) /\ rc[2] = layout.stock_col
            THEN [cell EXCEPT !.value = <<df[i].name>>]
            ELSE IF i \in 1..PastedCount(df) /\ rc[2] = layout.value_col
            THEN [cell EXCEPT !.value = <<df[i].value>>]
            ELSE cell]

\* _apply_common_stock_format
ApplyCommonStockFormat(cells, layout, common_set, pasted_rows_count) ==
    [rc \in DOMAIN cells |->
        LET stock_cell == cells[rc]
        IN  IF /\ rc[1] - layout.start_row \in 0..(pasted_rows_count - 1)
               /\ rc[2] = layout.stock_col
               /\ stock_cell.value # <<>>
               /\ stock_cell.value[1] \in common_set
            THEN [stock_cell EXCEPT !.fill = "common"]
            ELSE stock_cell]

\* _clear_remaining_rows
ClearRemainingRows(cells, layout, pasted_rows_count) ==
    [rc \in DOMAIN cells |->
        IF rc[1] - layout.start_row \in pasted_rows_count..(TOP_N_TO_PASTE - 1)
        THEN IF rc[2] = layout.stock_col THEN BlankCell
             ELSE IF rc[2] = layout.value_col THEN [cells[rc] EXCEPT !.value = <<>>]
             ELSE cells[rc]
        ELSE cells[rc]]

RECURSIVE PasteLists(_, _, _, _)
\* the loop of _paste_and_format_data over the keys of LAYOUT_MAP
PasteLists(cells, keys, all_data, common_stocks) ==
    IF keys = <<>> THEN cells
    ELSE LET key == Head(keys)
             layout == LAYOUT_MAP[key]
             df == all_data[key]
         IN  IF df = NoVal
             THEN PasteLists(cells, Tail(keys), all_data, common_stocks)
             ELSE PasteLists(
                    ClearRemainingRows(
                      ApplyCommonStockFormat(
                        PasteSingleList(cells, df[1], layout),
                        layout, common_stocks[layout.market], PastedCount(df[1])),
                      layout, PastedCount(df[1])),
                    Tail(keys), all_data, common_stocks)

\* (mutant) the lists are pasted over what the cloned sheet holds: neither the
\* data area nor the rows below a short list are cleared
PasteOverTemplate(sheet, all_data, common_stocks) ==
    LET paste(c, key) == IF all_data[key] = NoVal THEN c
                         ELSE PasteSingleList(c, all_data[key][1], LAYOUT_MAP[key])
    IN  [sheet EXCEPT !.cells = paste(paste(paste(paste(sheet.cells, LayoutOrder[1]),
                                                  LayoutOrder[2]),
                                            LayoutOrder[3]),
                                      LayoutOrder[4]),
                      !.bestFit = sheet.bestFit \cup COLUMNS_TO_AUTOFIT]

\* _paste_and_format_data
PasteAndFormatData(sheet, all_data, common_stocks) ==
    [sheet EXCEPT !.cells = PasteLists(ClearDataArea(sheet.cells), LayoutOrder,
                                       all_data, common_stocks),
                  !.bestFit = sheet.bestFit \cup COLUMNS_TO_AUTOFIT]

\* book.sheetnames
Titles(book) == [i \in 1..Len(book) |-> book[i].title]

\* _find_source_sheet: the title of book.worksheets[-1], "none" without one
FindSourceSheet(file) ==
    IF ~file.exists \/ file.sheets = <<>> THEN "none"
    ELSE file.sheets[Len(file.sheets)].title

\* update_ranking_report: the file afterwards and the value returned
UpdateRankingReportResult(file, date_int, data_to_paste, common_stocks) ==
    IF ~file.exists \/ file.sheets = <<>>
    THEN [file |-> file, ret |-> FALSE]
    ELSE LET source_sheet == file.sheets[Len(file.sheets)]
             book == RemoveExisting(file.sheets, NewSheetName(date_int))
             new_sheet == [CopyWorksheet(source_sheet) EXCEPT
                               !.title = NewSheetName(date_int)]
             filled == PasteAndFormatData(UpdateSheetHeaders(new_sheet, date_int),
                                          data_to_paste, common_stocks)
         IN  [file |-> [exists |-> TRUE, sheets |-> book \o <<filled>>],
              ret |-> TRUE]

\* ---- the calls made

RankingDates == {20251024, 20251027}

\* a standardized frame of n rows, sorted by value descending
Frame(n) == [i \in 1..n |-> [name |-> "S" \o ToString(i), value |-> n - i + 1]]

\* data_to_paste: every list with one row, or with more rows than are pasted;
\* all four keys with a frame, or the first or the last key of LAYOUT_MAP
\* without one (all_data.get(key) is None)
DataToPaste ==
    {[key \in DOMAIN LAYOUT_MAP |-> IF key = hole THEN NoVal ELSE Some(Frame(n))] :
        hole \in {"none", "KOSPI_foreigner", "KOSDAQ_institutions"},
        n \in {1, TOP_N_TO_PASTE + 1}}

CommonStocks ==
    {[KOSPI |-> {}, KOSDAQ |-> {}], [KOSPI |-> {"S1"}, KOSDAQ |-> {"S2"}]}

\* one call report_port.update_ranking_report(report_date, previous_date,
\* data_to_paste, common_stocks); lastUpdate records the call for the
\* properties: arguments, outcome, whether it repeats the arguments of the
\* call before it, the sheet of the date as it was when the call began, the
\* stage that raised (none here) and whether the file was changed
UpdateRankingReport ==
    /\ nupdates < MaxUpdates
    /\ \E date_int \in RankingDates, data_to_paste \in DataToPaste,
          common_stocks \in CommonStocks :
          LET r == UpdateRankingReportResult(ranking_file, date_int, data_to_paste,
                                             common_stocks)
              name == NewSheetName(date_int)
          IN  /\ ranking_file' = r.file
              /\ lastUpdate' =
                    [date |-> date_int, data |-> data_to_paste,
                     common |-> common_stocks, ret |-> r.ret,
                     again |-> /\ lastUpdate.date = date_int
                               /\ lastUpdate.ret
                               /\ lastUpdate.data = data_to_paste
                               /\ lastUpdate.common = common_stocks,
                     sheetBefore |->
                        IF HasSheet(ranking_file.sheets, name)
                        THEN Some(ranking_file.sheets[IndexOf(ranking_file.sheets, name)])
                        ELSE NoVal,
                     fault |-> "none",
                     changed |-> r.file # ranking_file,
                     titlesBefore |-> Titles(ranking_file.sheets),
                     source |-> FindSourceSheet(ranking_file)]
    /\ nupdates' = nupdates + 1
    /\ UNCHANGED <<pipeVars, stdVars, ledgerVars, cliVars, baseVars>>

\* the stages of update_ranking_report that run in a try block between the
\* copy of the template and the save: _copy_and_prepare_sheet,
\* _update_sheet_headers, _paste_and_format_data
Stages == {"copy", "headers", "paste"}

\* (mutant) the book is saved with the sheet as the failed stage left it
FaultedResultSaved(file, date_int, stage) ==
    [file |-> [exists |-> TRUE,
               sheets |-> RemoveExisting(file.sheets, NewSheetName(date_int))
                          \o (IF stage = "copy" THEN <<>>
                              ELSE <<[CopyWorksheet(file.sheets[Len(file.sheets)])
                                         EXCEPT !.title = NewSheetName(date_int)]>>)],
     ret |-> FALSE]

\* lines 241-257: a stage raises, the except branch returns False; the book
\* in memory is dropped and the file is as it was
FaultedResult(file, date_int, stage) == [file |-> file, ret |-> FALSE]

\* one call of update_ranking_report in which a stage raises (whatever the
\* lists are: the outcome does not depend on them)
UpdateRankingReportFails ==
    /\ nupdates < MaxUpdates
    /\ ranking_file.exists /\ ranking_file.sheets # <<>>
    /\ \E date_int \in RankingDates, stage \in Stages :
          LET r == FaultedResult(ranking_file, date_int, stage)
          IN  /\ ranking_file' = r.file
              /\ lastUpdate' =
                    [date |-> date_int, data |-> <<>>, common |-> <<>>,
                     ret |-> r.ret, again |-> FALSE, sheetBefore |-> NoVal,
                     fault |-> stage, changed |-> r.file # ranking_file,
                     titlesBefore |-> Titles(ranking_file.sheets),
                     source |-> FindSourceSheet(ranking_file)]
    /\ nupdates' = nupdates + 1
    /\ UNCHANGED <<pipeVars, stdVars, ledgerVars, cliVars, baseVars>>

\* a sheet as kept by hand: stale lists in the data area (also in column H
\* and below the rows a short list fills), no bestFit, with or without parts
\* that a copy leaves behind
StaleCells ==
    [rc \in DATA_RANGE_TO_CLEAR |->
        IF rc[2] \in {"E", "G", "J", "L"} THEN [value |-> <<0>>, fill |-> "none"]
        ELSE [value |-> <<"old">>, fill |-> "common"]]

TemplateSheet(title, extras) ==
    RankingSheet(title, "23 day", "THU", StaleCells, {}, extras)

\* the ranking workbooks found before the first call: no file; a workbook
\* whose last sheet is the previous day's; workbooks that already have a sheet
\* titled as one of the dates, last or not
PriorRankingFiles ==
    {NoFile}
    \cup {[exists |-> TRUE, sheets |-> <<TemplateSheet("1023", e)>>] : e \in BOOLEAN}
    \cup {[exists |-> TRUE,
           sheets |-> <<TemplateSheet("1023", FALSE), TemplateSheet("1024", TRUE)>>],
          [exists |-> TRUE,
           sheets |-> <<TemplateSheet("1024", TRUE), TemplateSheet("1023", FALSE)>>]}

SnapInit ==
    /\ ranking_file \in PriorRankingFiles
    /\ lastUpdate = NoUpdate /\ nupdates = 0
    /\ PipeIdle /\ StdIdle /\ LedgerIdle /\ BaseIdle /\ CliIdle

SnapNext == UpdateRankingReport \/ UpdateRankingReportFails

SpecSnap == SnapInit /\ [][SnapNext]_vars

\* ---- the snapshot as UpdateRankingReportTask.execute makes it: the common
\* ---- stocks are computed from the lists that are pasted
\* a list of len rows sorted by value descending, its names S(k+1), S(k+2), ...
\* taken round the N+1 names S1..S(N+1)
RankFrame(k, len) ==
    [i \in 1..len |->
        [name |-> "S" \o ToString(((i + k - 1) % (TOP_N_TO_PASTE + 1)) + 1),
         value |-> len - i + 1]]

RankFrames ==
    {RankFrame(k, len) : k \in 0..TOP_N_TO_PASTE, len \in {1, TOP_N_TO_PASTE + 1}}

\* df.nlargest(n, value)[name] as a set: the names of the rows with fewer
\* than n rows of a larger value (the values of a list are distinct)
NLargestNames(df, n) ==
    {df[i].name : i \in {i \in 1..Len(df) :
                            Cardinality({j \in 1..Len(df) : df[j].value > df[i].value}) < n}}

\* (mutant) the names of either list
FindStocksOfEither(df_foreign, df_inst) ==
    NLargestNames(df_foreign, TOP_N_TO_PASTE) \cup NLargestNames(df_inst, TOP_N_TO_PASTE)

\* _find_common_stocks (top_n is 20 like TOP_N_TO_PASTE, scaled with it)
FindCommonStocks(df_foreign, df_inst) ==
    NLargestNames(df_foreign, TOP_N_TO_PASTE) \cap NLargestNames(df_inst, TOP_N_TO_PASTE)

\* execute, lines 118-152, for a context that has the date and all four
\* lists: the common stocks of each market are computed and the port is
\* called with the lists and the common stocks; a pipeline run executes the
\* task once
UpdateRankingReportTaskCall ==
    /\ nupdates = 0
    /\ \E date_int \in RankingDates, kf \in RankFrames, ki \in RankFrames,
          qi \in {RankFrame(0, 1), RankFrame(TOP_N_TO_PASTE, 1)} :
          LET all_data == [KOSPI_foreigner |-> Some(kf),
                           KOSPI_institutions |-> Some(ki),
                           KOSDAQ_foreigner |-> Some(RankFrame(0, TOP_N_TO_PASTE + 1)),
                           KOSDAQ_institutions |-> Some(qi)]
              common_stocks_map ==
                  [KOSPI |-> FindCommonStocks(all_data.KOSPI_foreigner[1],
                                              all_data.KOSPI_institutions[1]),
                   KOSDAQ |-> FindCommonStocks(all_data.KOSDAQ_foreigner[1],
                                               all_data.KOSDAQ_institutions[1])]
              r == UpdateRankingReportResult(ranking_file, date_int, all_data,
                                             common_stocks_map)
              name == NewSheetName(date_int)
          IN  /\ ranking_file' = r.file
              /\ lastUpdate' =
                    [date |-> date_int, data |-> all_data,
                     common |-> common_stocks_map, ret |-> r.ret,
                     again |-> /\ lastUpdate.date = date_int
                               /\ lastUpdate.ret
                               /\ lastUpdate.data = all_data
                               /\ lastUpdate.common = common_stocks_map,
                     sheetBefore |->
                        IF HasSheet(ranking_file.sheets, name)
                        THEN Some(ranking_file.sheets[IndexOf(ranking_file.sheets, name)])
                        ELSE NoVal,
                     fault |-> "none",
                     changed |-> r.file # ranking_file,
                     titlesBefore |-> Titles(ranking_file.sheets),
                     source |-> FindSourceSheet(ranking_file)]
    /\ nupdates' = nupdates + 1
    /\ UNCHANGED <<pipeVars, stdVars, ledgerVars, cliVars, baseVars>>

\* the workbook has the previous day's sheet, with stale highlighted cells
RankInit ==
    /\ ranking_file = [exists |-> TRUE, sheets |-> <<TemplateSheet("1023", FALSE)>>]
    /\ lastUpdate = NoUpdate /\ nupdates = 0
    /\ PipeIdle /\ StdIdle /\ LedgerIdle /\ BaseIdle /\ CliIdle

RankNext == UpdateRankingReportTaskCall

SpecRank == RankInit /\ [][RankNext]_vars

(***************************************************************************)
(* Part 5.  The command line: crawl and DailyRoutineService.execute        *)
(***************************************************************************)

\* the date argument: a string as its characters, or <<>> when it is not given
CliDates ==
    {<<>>,
     <<"2", "0", "2", "5", "1", "0", "2", "4">>,
     <<"2", "0", "2", "5", "-", "0", "1", "-", "0", "1">>,
     <<"2", "0", "2", "5", "1", "0", "2">>,
     <<"2", "0", "2", "5", "1", "0", "2", "4", "0">>,
     <<"2", "0", "2", "5", "1", "0", "2", "a">>}

\* len(target_date) != 8 or not target_date.isdigit()
InvalidDateFormat(date) ==
    Len(date) # 8 \/ \E i \in 1..Len(date) : ~IsDigit(date[i])

\* the report steps of execute after the fetch, in call order
RoutineSteps ==
    <<"save_daily_reports", "update_reports", "save_cumulative_watchlist",
      "update_ranking_report", "save_watchlist">>

\* what a step's port does: it does its work; it prints a failure and
\* returns; it raises
StepOutcomes == {"ok", "failed", "raised"}

\* number of KrxData fetch_all_data can return: one per target at most
FetchCounts == 0..4

\* crawl is invoked with a date argument (or none)
CliInvoke ==
    /\ cli.pc = "idle"
    /\ \E date \in CliDates :
          cli' = [cli EXCEPT !.pc = "parse", !.date = date]
    /\ UNCHANGED <<pipeVars, stdVars, ledgerVars, snapVars, baseVars>>

\* lines 41-49: a given date of a wrong format ends the command with code 1
CliParse ==
    /\ cli.pc = "parse"
    /\ cli' = IF cli.date # <<>> /\ InvalidDateFormat(cli.date)
              THEN [cli EXCEPT !.pc = "exited", !.exit_code = 1]
              ELSE [cli EXCEPT !.pc = "setup"]
    /\ UNCHANGED <<pipeVars, stdVars, ledgerVars, snapVars, baseVars>>

\* lines 55-94: the storage is set up; in drive mode a missing credential
\* file or a failed initialisation ends the command with code 1
CliSetup ==
    /\ cli.pc = "setup"
    /\ \E drive_ok \in BOOLEAN :
          cli' = IF drive_ok THEN [cli EXCEPT !.pc = "fetch"]
                 ELSE [cli EXCEPT !.pc = "exited", !.exit_code = 1]
    /\ UNCHANGED <<pipeVars, stdVars, ledgerVars, snapVars, baseVars>>

\* execute, lines 37-41: fetch_all_data returns the data it could get (it
\* catches the failure of each target); with none, execute prints that the
\* routine ends and returns, and crawl ends normally
CliFetch ==
    /\ cli.pc = "fetch"
    /\ \E n \in FetchCounts :
          cli' = IF n = 0
                 THEN [cli EXCEPT !.pc = "exited", !.results = 0, !.exit_code = 0]
                 ELSE [cli EXCEPT !.pc = "report", !.results = n]
    /\ UNCHANGED <<pipeVars, stdVars, ledgerVars, snapVars, baseVars>>

\* execute, lines 43-63: the next report step is called; its return value is
\* not looked at; an exception leaves execute and crawl ends with code 1;
\* after the last step crawl ends normally
CliReportStep ==
    /\ cli.pc = "report"
    /\ \E outcome \in StepOutcomes :
          LET steps == Append(cli.steps, outcome)
          IN  cli' = IF outcome = "raised"
                     THEN [cli EXCEPT !.pc = "exited", !.steps = steps, !.exit_code = 1]
                     ELSE IF Len(steps) = Len(RoutineSteps)
                     THEN [cli EXCEPT !.pc = "exited", !.steps = steps, !.exit_code = 0]
                     ELSE [cli EXCEPT !.steps = steps]
    /\ UNCHANGED <<pipeVars, stdVars, ledgerVars, snapVars, baseVars>>

CliInit ==
    /\ cli = NoCli
    /\ PipeIdle /\ StdIdle /\ LedgerIdle /\ BaseIdle /\ SnapIdle

CliNext == CliInvoke \/ CliParse \/ CliSetup \/ CliFetch \/ CliReportStep

SpecCli == CliInit /\ [][CliNext]_vars

(***************************************************************************)
(* Part 6.  The abstract Pipeline: run and get_final_result                *)
(***************************************************************************)

\* the longest step list followed
MaxSteps == 3

\* what execute of a task does once it is entered: it returns a dictionary
\* with a passing status, returns one with status 'FAILED', or raises
TaskBehaviours == {"SUCCESS", "FAILED", "raises"}

\* the dictionary task number i returns
ResultOf(i, behaviour) == [status |-> behaviour, by |-> i]

\* the except branch of run(): {'status': 'CRITICAL_ERROR', 'error': str(e)}
CriticalError == [status |-> "CRITICAL_ERROR", by |-> 0]

\* one pass of the for loop of run(): task.execute(**current_input) is
\* evaluated.  Unpacking None with ** raises TypeError before execute is
\* entered, and so does a call the task raises in; both go to the except
\* branch.  A result with status 'FAILED' is stored and run returns; any
\* other result becomes the next input.
BaseRunStep ==
    /\ base_run.pc = "loop"
    /\ base_run.i <= Len(base_run.steps)
    /\ LET i == base_run.i
           behaviour == base_run.steps[i]
           returned == ResultOf(i, behaviour)
       IN  IF base_run.current_input = NoneResult
           THEN base_run' = [base_run EXCEPT !.pc = "returned",
                                             !.last_result = CriticalError]
           ELSE IF behaviour = "raises"
           THEN base_run' = [base_run EXCEPT
                                !.pc = "returned",
                                !.executed = Append(@, [task |-> i,
                                                        input |-> base_run.current_input]),
                                !.last_result = CriticalError]
           ELSE IF returned.status = "FAILED"
           THEN base_run' = [base_run EXCEPT
                                !.pc = "returned",
                                !.executed = Append(@, [task |-> i,
                                                        input |-> base_run.current_input]),
                                !.last_result = returned]
           ELSE base_run' = [base_run EXCEPT
                                !.i = i + 1,
                                !.executed = Append(@, [task |-> i,
                                                        input |-> base_run.current_input]),
                                !.current_input = returned]
    /\ UNCHANGED <<pipeVars, stdVars, ledgerVars, snapVars, cliVars>>

\* line 48: the loop is over, self._last_result = current_input
BaseRunEnd ==
    /\ base_run.pc = "loop"
    /\ base_run.i > Len(base_run.steps)
    /\ base_run' = [base_run EXCEPT !.pc = "returned",
                                    !.last_result = base_run.current_input]
    /\ UNCHANGED <<pipeVars, stdVars, ledgerVars, snapVars, cliVars>>

\* get_final_result() after run() has returned
GetFinalResult ==
    /\ base_run.pc = "returned"
    /\ base_run' = [base_run EXCEPT !.pc = "got", !.final = Some(base_run.last_result)]
    /\ UNCHANGED <<pipeVars, stdVars, ledgerVars, snapVars, cliVars>>

\* a pipeline whose _steps is a list of up to MaxSteps tasks, run() entered:
\* current_input = None, _last_result = None
BaseInit ==
    /\ \E n \in 0..MaxSteps :
          \E steps \in [1..n -> TaskBehaviours] :
              base_run = [pc |-> "loop", steps |-> steps, i |-> 1,
                          current_input |-> NoneResult, last_result |-> NoneResult,
                          executed |-> <<>>, final |-> <<>>]
    /\ PipeIdle /\ StdIdle /\ LedgerIdle /\ SnapIdle /\ CliIdle

BaseNext == BaseRunStep \/ BaseRunEnd \/ GetFinalResult

SpecBase == BaseInit /\ [][BaseNext]_vars

(***************************************************************************)
(* Claims about the snapshot                                               *)
(***************************************************************************)

\* the sheets of the ranking workbook titled as the date
SheetsOfDate(date_int) ==
    {i \in 1..Len(ranking_file.sheets) :
        ranking_file.sheets[i].title = NewSheetName(date_int)}

\* C6: after update_ranking_report has been called twice in a row with the
\* same date, lists and common stocks, the workbook has exactly one sheet
\* titled as the date, and the sheet is as the first call left it.
C6_SecondUpdateLeavesOneEqualSheet ==
    (lastUpdate.again /\ lastUpdate.ret)
        => /\ Cardinality(SheetsOfDate(lastUpdate.date)) = 1
           /\ \A i \in SheetsOfDate(lastUpdate.date) :
                 Some(ranking_file.sheets[i]) = lastUpdate.sheetBefore

\* C6 witness: the second of two equal calls has returned True on a workbook
\* that has other sheets, with a list longer than the rows pasted and a
\* common stock marked.
C6_Witness ==
    /\ nupdates = 2 /\ lastUpdate.again /\ lastUpdate.ret
    /\ Len(ranking_file.sheets) > 2
    /\ \E i \in SheetsOfDate(lastUpdate.date) :
          /\ ranking_file.sheets[i].cells[<<5, "D">>].fill = "common"
          /\ ranking_file.sheets[i].cells[<<5 + TOP_N_TO_PASTE - 1, "E">>].value # <<>>
          /\ ranking_file.sheets[i].cells[<<5, "H">>] = BlankCell

\* a context in which UpdateRankingReportTask reaches the adapter call
ReadyContext ==
    [InitialContext("20251024") EXCEPT !.status = "success",
                                       !.processed_dfs_dict = Some(Keys)]

\* C12: when a stage of update_ranking_report between the copy of the
\* template and the save raises, the file is not written and stays as it
\* was, the adapter returns False, and the task's status is not a success.
C12_FailedStageLeavesFileAndReportsError ==
    lastUpdate.fault \in Stages
        => /\ ~lastUpdate.ret
           /\ ~lastUpdate.changed
           /\ UpdateRankingReportOutput(ReadyContext, lastUpdate.ret).status
                  \notin {"success", "partial_success"}

\* C12 witness: a stage raised in a call on a workbook that an earlier call
\* had updated, and the date's sheet of that call is still there.
C12_Witness ==
    /\ lastUpdate.fault \in Stages /\ nupdates = 2
    /\ Len(ranking_file.sheets) > 1
    /\ \E i \in SheetsOfDate(lastUpdate.date) :
          ranking_file.sheets[i].bestFit = COLUMNS_TO_AUTOFIT

(***************************************************************************)
(* Claims about the pipeline                                               *)
(***************************************************************************)

\* C1: once the context carries status error, skipped or critical_error
\* (after the merge of a task's output, or after the except branch), no
\* further task is executed, the context is not changed any more, and what
\* run returns is that context.
C1_HaltStopsRun ==
    /\ [][(executed # <<>> /\ context.status \in {"error", "skipped", "critical_error"})
             => (executed' = executed /\ context' = context)]_vars
    /\ [](phase = "returned" => result = Some(context))

\* C1 witness: a run halted by a task's status before the last step and returned
C1_Witness ==
    /\ phase = "returned"
    /\ raised = NoVal
    /\ context.status \in {"error", "skipped"}
    /\ Len(executed) < Len(pipeline_steps)
    /\ result = Some(context)

\* C2: when a task's execute raised, the context has status critical_error
\* and the exception text as message, the loop is left, no further task is
\* executed, and run returns that context.
C2_FaultIsCaught ==
    /\ [](raised # NoVal =>
            /\ context.status = "critical_error"
            /\ context.message = raised[1]
            /\ phase # "running"
            /\ (phase = "returned" => result = Some(context)))
    /\ [][raised # NoVal => executed' = executed]_vars

\* C2 witness: a task in the middle of the list raised and run returned
C2_Witness ==
    /\ raised # NoVal
    /\ phase = "returned"
    /\ Len(executed) \in 2..(Len(pipeline_steps) - 1)
    /\ result = Some(context)

\* exactly one category's payload is b"" and every other category's payload
\* yields a non-empty frame
OneEmptyPayload(raw) ==
    /\ raw # NoVal
    /\ Cardinality({k \in Keys : raw[1][k] = "empty"}) = 1
    /\ \A k \in Keys : raw[1][k] \in {"empty", "good"}

\* C9: with exactly one empty payload, and no port failing, the run goes
\* through all steps and its final status is partial_success.
C9_OneEmptyIsPartialSuccess ==
    (/\ phase = "returned"
     /\ raised = NoVal
     /\ OneEmptyPayload(context.raw_bytes_dict)
     /\ Len(executed) = Len(pipeline_steps))
        => result[1].status = "partial_success"

\* every category's payload is b""
AllPayloadsEmpty(raw) == raw # NoVal /\ \A k \in Keys : raw[1][k] = "empty"

\* C10: when every payload is empty the run does not end with status error
\* or critical_error.
C10_AllEmptyIsNoError ==
    (/\ phase = "returned"
     /\ raised = NoVal
     /\ AllPayloadsEmpty(context.raw_bytes_dict))
        => result[1].status \notin {"error", "critical_error"}

\* the task run last was pipeline_steps[i] and its execute returned
LastExecuted(i) ==
    executed # <<>> /\ executed[Len(executed)] = i /\ raised = NoVal

\* C13: in UpdateMasterReportsTask, update_report is called for every key
\* that has a frame whatever the outcome for the other keys, and the task's
\* status is 'error' exactly when no key was updated.
C13_LedgerFailureIsPerCategory ==
    LastExecuted(6) =>
        /\ context.status = "error" => portLog.ledger_ok = {}
        /\ portLog.ledger_ran =>
              /\ portLog.ledger_called = context.processed_dfs_dict[1]
              /\ portLog.ledger_ok = {} => context.status = "error"

\* C13 witness: the update of the first key failed, the other three keys were
\* updated, and the task's status is partial_success.
C13_Witness ==
    /\ LastExecuted(6) /\ portLog.ledger_ran
    /\ portLog.ledger_called = Keys
    /\ portLog.ledger_ok = Keys \ {"KOSPI_foreigner"}
    /\ context.status = "partial_success"

\* C14: in FetchKrxNetValueTask the port is called for every target whatever
\* it raised for the others, a target that did not raise has its payload in
\* raw_bytes_dict, and the status is 'error' exactly when every target raised.
C14_FetchFaultIsPerCategory ==
    LastExecuted(1) =>
        /\ portLog.fetch_called = Keys
        /\ context.status = "error" <=> portLog.fetch_failed = Keys
        /\ context.status # "error" =>
              \A k \in Keys : (context.raw_bytes_dict[1][k] = "absent")
                                  <=> k \in portLog.fetch_failed

\* C14 witness: the first target raised, the other three were fetched, and
\* the status is partial_success.
C14_Witness ==
    /\ LastExecuted(1)
    /\ portLog.fetch_failed = {"KOSPI_institutions"}
    /\ portLog.fetch_called = Keys
    /\ context.status = "partial_success"

\* C15: when the payload of some category is one the processor rejects for a
\* missing column (it returns an empty frame), StandardizeKrxDataTask returns
\* status 'error' and the loop of run() stops.
C15_MissingColumnIsError ==
    (/\ LastExecuted(2)
     /\ context.raw_bytes_dict # NoVal
     /\ \E k \in Keys : context.raw_bytes_dict[1][k] = "invalid")
        => context.status = "error" /\ phase # "running"

\* C16: when run() has returned, the status and the message of every task
\* that returned are in the returned context.
C16_EveryTaskStatusInFinalContext ==
    phase = "returned" =>
        \A i \in 1..Len(trail) :
            /\ result[1].status = trail[i].status
            /\ result[1].message = trail[i].message

C18_NoPartialWrites ==
    lastSave # NoSave =>
        \/ \A t \in StoreIds : stores[t] = [exists |-> TRUE, sheets |-> lastSave.book]
        \/ \A t \in StoreIds : stores[t] = lastSave.before[t]

\* C19: an update is fast-skipped only if an earlier update of the same key
\* wrote the pivot sheet for exactly the same date (year, month and day).
C19_SkipOnlyForSameDate ==
    (lastCall.key # "none" /\ lastCall.skipped)
        => <<lastCall.key, lastCall.date>> \in lastCall.views

\* the dates that have a sheet among the titles (the sheets of the workbook
\* are of one year)
DatedSheets(titles) ==
    {d \in RankingDates \cup {20251023} :
        \E i \in 1..Len(titles) : titles[i] = NewSheetName(d)}

\* C20: the sheet cloned as the template by an update for date D is the sheet
\* of the latest date before D among the sheets the workbook had.
C20_TemplateIsPrecedingDate ==
    (lastUpdate.date # 0 /\ lastUpdate.ret) =>
        LET before == {d \in DatedSheets(lastUpdate.titlesBefore) : d < lastUpdate.date}
        IN  /\ before # {}
            /\ \E m \in before :
                  /\ lastUpdate.source = NewSheetName(m)
                  /\ \A d \in before : d <= m

\* the rows of the raced date in the raw-row sheet of the raced key
RacedRows ==
    LET raw == RawRowsOf(files[RaceKey], RaceDate)
    IN  SelectSeq(raw, LAMBDA row : row.date = RaceDate)

\* C21: however the steps of two update_report calls for one key and one
\* date interleave, the raw-row sheet holds the date's rows at most once:
\* none, or the rows of one of the calls.
C21_RaceKeepsDateOnce ==
    procs # <<>> =>
        \/ RacedRows = <<>>
        \/ \E p \in Procs : RacedRows = Formatted(procs[p].rows, RaceDate)

\* C22: a call that appends rows for a date not yet recorded leaves the rows
\* the month's sheet had, in their order, and puts the new rows after them in
\* the order given (a sheet or file that did not exist holds exactly the new
\* rows); the sheets of other months and days are as they were.
C22_AppendKeepsEarlierRows ==
    (/\ lastCall.key # "none" /\ lastCall.ret /\ ~lastCall.skipped
     /\ ~HasRowsOf(lastCall.rawBefore, lastCall.date))
        => /\ files[lastCall.key].exists
           /\ RawRowsOf(files[lastCall.key], lastCall.date)
                 = lastCall.rawBefore \o Formatted(lastCall.rows, lastCall.date)
           /\ \A i \in 1..Len(lastCall.sheetsBefore) :
                 LET sheet == lastCall.sheetsBefore[i]
                 IN  sheet.title \notin {SheetName(lastCall.date),
                                         PivotSheetName(lastCall.date)}
                        => \E j \in 1..Len(files[lastCall.key].sheets) :
                              files[lastCall.key].sheets[j] = sheet

\* C22 witness: a call appended a day's rows to a month sheet that already
\* had the rows of another day.
C22_Witness ==
    /\ lastCall.key # "none" /\ lastCall.ret /\ ~lastCall.skipped
    /\ lastCall.rawBefore # <<>>
    /\ ~HasRowsOf(lastCall.rawBefore, lastCall.date)
    /\ Len(RawRowsOf(files[lastCall.key], lastCall.date)) > Len(lastCall.rawBefore)

\* C23: the command ends with code 0 only when the run fully succeeded (data
\* was fetched and every report step did its work), and a date argument of a
\* wrong format ends it with code 1 before anything is fetched or written.
C23_ExitZeroOnlyOnFullSuccess ==
    /\ (cli.pc = "exited" /\ cli.exit_code = 0)
          => /\ cli.results > 0
             /\ Len(cli.steps) = Len(RoutineSteps)
             /\ \A i \in 1..Len(cli.steps) : cli.steps[i] = "ok"
    /\ (cli.pc = "exited" /\ cli.date # <<>> /\ InvalidDateFormat(cli.date))
          => cli.exit_code = 1 /\ cli.results = 0 /\ cli.steps = <<>>

\* the value column the claim names for a sheet: the first column whose
\* header has all keywords, else the last numeric column, else 0
ClaimedValueColumn(b) ==
    LET n == Len(b.cols)
    IN  IF \E c \in 1..n : b.cols[c].kw
        THEN CHOOSE c \in 1..n : b.cols[c].kw /\ \A d \in 1..(c - 1) : ~b.cols[d].kw
        ELSE IF \E c \in 1..n : b.cols[c].numeric
        THEN CHOOSE c \in 1..n :
                b.cols[c].numeric /\ \A d \in (c + 1)..n : ~b.cols[d].numeric
        ELSE 0

\* C24: the values of a returned frame are those of the first keyword column,
\* or without one of the last numeric column; for a sheet with neither the
\* function fails (MissingValueColumn) and returns no dataset.
C24_ValueColumnOrFailure ==
    excel_bytes.kind = "table" =>
        /\ ClaimedValueColumn(excel_bytes) = 0 => df_final = NoVal
        /\ (ClaimedValueColumn(excel_bytes) # 0 /\ df_final # NoVal) =>
              \A i \in 1..Len(df_final[1]) :
                 df_final[1][i].value
                    = excel_bytes.cols[ClaimedValueColumn(excel_bytes)].vals[df_final[1][i].row]

\* the latest update_ranking_report call went through all its stages
LastUpdateDone ==
    lastUpdate.date # 0 /\ lastUpdate.ret /\ lastUpdate.fault = "none"

\* C25: after an update, for every category whose list has m < N rows, the
\* name and value cells of rows m+1..N of its column pair are empty.
C25_RowsBelowShortListEmpty ==
    LastUpdateDone =>
        \A s \in SheetsOfDate(lastUpdate.date) :
            \A key \in DOMAIN LAYOUT_MAP :
                lastUpdate.data[key] # NoVal =>
                    \A r \in (Len(lastUpdate.data[key][1]) + 1)..TOP_N_TO_PASTE :
                        LET layout == LAYOUT_MAP[key]
                            row == layout.start_row + r - 1
                            cells == ranking_file.sheets[s].cells
                        IN  /\ cells[<<row, layout.stock_col>>].value = <<>>
                            /\ cells[<<row, layout.value_col>>].value = <<>>

\* C25 witness: an update pasted a list shorter than N into a sheet cloned
\* from a template whose rows below the list held values.
C25_Witness ==
    /\ LastUpdateDone
    /\ \E key \in DOMAIN LAYOUT_MAP :
          /\ lastUpdate.data[key] # NoVal
          /\ Len(lastUpdate.data[key][1]) < TOP_N_TO_PASTE
          /\ \E s \in SheetsOfDate(lastUpdate.date) :
                ranking_file.sheets[s].cells[<<LAYOUT_MAP[key].start_row,
                                               LAYOUT_MAP[key].stock_col>>].value # <<>>
    /\ \E i \in 1..Len(lastUpdate.titlesBefore) :
          lastUpdate.titlesBefore[i] = lastUpdate.source

\* the names among the first N rows of the list of a key in the latest call
ListedNames(key) ==
    LET df == lastUpdate.data[key][1]
    IN  {df[i].name : i \in 1..Min(Len(df), TOP_N_TO_PASTE)}

\* the two keys of a market
KeysOfMarket(market) == {key \in DOMAIN LAYOUT_MAP : LAYOUT_MAP[key].market = market}

\* C26: after an update made by the task, a name cell of the data region is
\* highlighted if and only if it holds a name that is among the first N of
\* both lists of the cell's market.
C26_HighlightIffInBothLists ==
    LastUpdateDone =>
      /\ \A market \in DOMAIN lastUpdate.common :
            \A a \in KeysOfMarket(market), b \in KeysOfMarket(market) :
                a # b => lastUpdate.common[market]
                    = FindCommonStocks(lastUpdate.data[a][1], lastUpdate.data[b][1])
      /\ \A s \in SheetsOfDate(lastUpdate.date) :
            \A key \in DOMAIN LAYOUT_MAP :
                \A row \in 5..(5 + TOP_N_TO_PASTE - 1) :
                    LET cell == ranking_file.sheets[s].cells[<<row, LAYOUT_MAP[key].stock_col>>]
                    IN  (cell.fill = "common")
                          <=> /\ cell.value # <<>>
                              /\ \A other \in KeysOfMarket(LAYOUT_MAP[key].market) :
                                     cell.value[1] \in ListedNames(other)

\* C26 witness: a sheet written by the task has a highlighted name cell and a
\* name cell that is not highlighted.
C26_Witness ==
    /\ LastUpdateDone
    /\ \E s \in SheetsOfDate(lastUpdate.date) :
          LET cells == ranking_file.sheets[s].cells
          IN  /\ \E rc \in DOMAIN cells : cells[rc].value # <<>> /\ cells[rc].fill = "common"
              /\ \E rc \in DOMAIN cells :
                    /\ rc[2] \in {"D", "F", "I", "K"}
                    /\ cells[rc].value # <<>> /\ cells[rc].fill = "none"

\* C27: the tasks of a run are executed in list order from the first, each
\* at most once; a task starts only when the run is still going and the
\* output of the task before it is merged into the context; the tasks after
\* a halt are never executed.
C27_TasksInOrderOnce ==
    /\ [](/\ \A k \in 1..Len(executed) : executed[k] = k
          /\ Len(executed) <= Len(pipeline_steps)
          /\ phase # "running" => \A j \in 1..Len(pipeline_steps) :
                                     j > Len(executed) => \A k \in 1..Len(executed) : executed[k] # j)
    /\ [][executed' # executed =>
            /\ phase = "running"
            /\ executed' = Append(executed, Len(executed) + 1)
            /\ Len(trail) = Len(executed)
            /\ executed # <<>> =>
                  /\ context.status = trail[Len(trail)].status
                  /\ context.message = trail[Len(trail)].message
                  /\ context.status \notin HaltStatuses]_vars
    /\ [][phase # "running" => executed' = executed]_vars

\* C27 witness: a run that a task's status halted after the third task or
\* later and before the last, returned
C27_Witness ==
    /\ phase = "returned"
    /\ raised = NoVal
    /\ Len(executed) \in 3..(Len(pipeline_steps) - 1)
    /\ \A k \in 1..Len(executed) : executed[k] = k
    /\ Len(trail) = Len(executed)

\* the rows of a date in the raw-row sheet of the date's month
RowsOfDate(file, date_int) ==
    SelectSeq(RawRowsOf(file, date_int), LAMBDA row : row.date = date_int)

\* C28: after any sequence of calls made one after the other, for every key
\* and date the raw-row sheet holds exactly the rows of the first call for
\* that date that returned True.
C28_FirstUpdateRowsStay ==
    \A f \in lastCall.first :
        RowsOfDate(files[f.key], f.date) = Formatted(f.rows, f.date)

\* every task of the abstract pipeline returns a passing status
AllTasksPass ==
    /\ Len(base_run.steps) >= 1
    /\ \A k \in 1..Len(base_run.steps) : base_run.steps[k] = "SUCCESS"

\* C29: for a non-empty step list whose tasks all pass, once run has returned
\* every task was executed in list order, each with the result of the task
\* before it as input, and get_final_result gives the last task's result.
C29_RunChainsResults ==
    (AllTasksPass /\ base_run.pc \in {"returned", "got"}) =>
        /\ Len(base_run.executed) = Len(base_run.steps)
        /\ \A k \in 1..Len(base_run.executed) :
              /\ base_run.executed[k].task = k
              /\ k > 1 => base_run.executed[k].input = ResultOf(k - 1, "SUCCESS")
        /\ base_run.last_result = ResultOf(Len(base_run.steps), "SUCCESS")
        /\ base_run.pc = "got" => base_run.final = Some(base_run.last_result)

\* the run has no dataset for the key: nothing was fetched at all, or the
\* key's payload is missing, empty, or yields an empty frame
NoDatasetFor(key) ==
    \/ context.raw_bytes_dict = NoVal
    \/ context.raw_bytes_dict[1][key] # "good"

\* C30: update_report is not called for a key the run has no dataset for, so
\* the key's workbook (which only that call opens and saves) is neither
\* created nor changed.
C30_EmptyCategoryNotUpdated ==
    \A key \in Keys :
        NoDatasetFor(key) =>
            /\ key \notin portLog.ledger_called
            /\ key \notin portLog.ledger_ok

\* C30 witness: the master-report task went through its loop in a run that
\* has a dataset for some keys and none for others, and called update_report.
C30_Witness ==
    /\ LastExecuted(6)
    /\ portLog.ledger_ran
    /\ portLog.ledger_called # {}
    /\ \E key \in Keys : NoDatasetFor(key)

====
